---- MODULE Spec2Model ----
(***************************************************************************)
(* Verification model of the lyrics-and-music generator (src/main.py):     *)
(* the two polling loops (monitor_and_download, monitor_and_download_mp4), *)
(* the two downloaders (download_music, download_mp4), the video           *)
(* submission (generate_mp4) and the response extractors they use.         *)
(***************************************************************************)
EXTENDS Integers, Sequences, FiniteSets, TLC

(***************************************************************************)
(* JSON values as Python sees them after response.json().  A dict keeps    *)
(* its insertion order, so it is a sequence of <<key, value>> pairs.       *)
(***************************************************************************)
Null == [t |-> "null"]

Str(s) == [t |-> "str", s |-> s]

Num(n) == [t |-> "num", n |-> n]

Dict(kv) == [t |-> "dict", kv |-> kv]

List(xs) == [t |-> "list", xs |-> xs]

Bool(b) == [t |-> "bool", b |-> b]

\* A local that has not been assigned yet.
Unset == [t |-> "unset"]

KV(k, v) == <<k, v>>

\* Python truthiness of a JSON value (`if x:` / `not x`).
Truthy(v) ==
    CASE v.t = "null" -> FALSE
      [] v.t = "str"  -> v.s # ""
      [] v.t = "num"  -> v.n # 0
      [] v.t = "dict" -> v.kv # <<>>
      [] v.t = "list" -> v.xs # <<>>
      [] v.t = "bool" -> v.b
      [] OTHER        -> FALSE

isinstance_dict(v) == v.t = "dict"

isinstance_list(v) == v.t = "list"

\* `key in obj` for a dict obj.
Has(obj, key) == \E i \in 1..Len(obj.kv) : obj.kv[i][1] = key

\* `obj[key]` for a dict obj that has the key.
Item(obj, key) == obj.kv[CHOOSE i \in 1..Len(obj.kv) : obj.kv[i][1] = key][2]

\* `obj.get(key)`: None when the key is absent.
Get(obj, key) == IF Has(obj, key) THEN Item(obj, key) ELSE Null

\* `obj.get(key, default)`.
GetOr(obj, key, default) == IF Has(obj, key) THEN Item(obj, key) ELSE default

\* `s.startswith(prefix)` on a string value.
StartsWith(s, prefix) ==
    /\ Len(s) >= Len(prefix)
    /\ SubSeq(s, 1, Len(prefix)) = prefix

(***************************************************************************)
(* Response extractors.                                                    *)
(***************************************************************************)
AudioUrlKeys == <<"audioUrl", "audio_url", "url", "mp3Url", "streamUrl">>

AudioIdKeys == <<"audioId", "audio_id", "id">>

VideoUrlKeys == <<"video_url", "videoUrl", "url", "mp4Url", "mp4_url", "videoPath">>

\* A faulty variant: only the first key of `keys` is looked at.
FirstKeyOnly(obj, keys) ==
    IF Has(obj, keys[1]) /\ Truthy(Item(obj, keys[1])) THEN 1 ELSE 0

\* Index of the first key of `keys` that obj holds with a truthy value, 0 if none:
\* `for key in keys: if key in obj and obj[key]: return obj[key]`.
FirstTruthyKey(obj, keys) ==
    LET hits == {i \in 1..Len(keys) : Has(obj, keys[i]) /\ Truthy(Item(obj, keys[i]))}
    IN IF hits = {} THEN 0 ELSE CHOOSE i \in hits : \A j \in hits : i <= j

\* Index of the first key of `keys` present in obj (whatever its value), 0 if none:
\* `for key in keys: if key in obj: ...`.
FirstPresentKey(obj, keys) ==
    LET hits == {i \in 1..Len(keys) : Has(obj, keys[i])}
    IN IF hits = {} THEN 0 ELSE CHOOSE i \in hits : \A j \in hits : i <= j

RECURSIVE find_audio_url(_)
RECURSIVE find_audio_url_in(_, _)
\* The first truthy find_audio_url over xs[i..], else None (the two `for` loops
\* of the recursive search, over dict values and over list items).
find_audio_url_in(xs, i) ==
    IF i > Len(xs) THEN Null
    ELSE LET result == find_audio_url(xs[i])
         IN IF Truthy(result) THEN result ELSE find_audio_url_in(xs, i + 1)

find_audio_url(obj) ==
    IF isinstance_dict(obj) THEN
        LET k == FirstTruthyKey(obj, AudioUrlKeys)
            hasData == Has(obj, "data") /\ isinstance_dict(Item(obj, "data"))
            data == Item(obj, "data")
            hasResults == /\ hasData
                          /\ Has(data, "results")
                          /\ isinstance_list(Item(data, "results"))
                          /\ Truthy(Item(data, "results"))
            result == Item(data, "results").xs[1]
            values == [i \in 1..Len(obj.kv) |-> obj.kv[i][2]]
        IN IF k # 0 THEN Item(obj, AudioUrlKeys[k])
           ELSE IF hasData /\ Has(data, "audio_url") THEN Item(data, "audio_url")
           ELSE IF hasResults /\ isinstance_dict(result) /\ Has(result, "audio_url")
                THEN Item(result, "audio_url")
           ELSE find_audio_url_in(values, 1)
    ELSE IF isinstance_list(obj) THEN find_audio_url_in(obj.xs, 1)
    ELSE Null

RECURSIVE find_audio_id(_)
RECURSIVE find_audio_id_in(_, _)
\* A faulty variant: any string met in the search is taken for the id.
find_audio_id_in_takes_strings(xs, i) ==
    IF i > Len(xs) THEN Null
    ELSE IF xs[i].t = "str" THEN xs[i]
    ELSE LET result == find_audio_id(xs[i])
         IN IF Truthy(result) THEN result ELSE find_audio_id_in(xs, i + 1)

find_audio_id_in(xs, i) ==
    IF i > Len(xs) THEN Null
    ELSE LET result == find_audio_id(xs[i])
         IN IF Truthy(result) THEN result ELSE find_audio_id_in(xs, i + 1)

find_audio_id(obj) ==
    IF isinstance_dict(obj) THEN
        LET k == FirstTruthyKey(obj, AudioIdKeys)
            hasData == Has(obj, "data") /\ isinstance_dict(Item(obj, "data"))
            data == Item(obj, "data")
            hasResults == /\ hasData
                          /\ Has(data, "results")
                          /\ isinstance_list(Item(data, "results"))
                          /\ Truthy(Item(data, "results"))
            result == Item(data, "results").xs[1]
            values == [i \in 1..Len(obj.kv) |-> obj.kv[i][2]]
        IN IF k # 0 THEN Item(obj, AudioIdKeys[k])
           ELSE IF hasData /\ Has(data, "audioId") THEN Item(data, "audioId")
           ELSE IF hasResults /\ isinstance_dict(result) /\ Has(result, "audioId")
                THEN Item(result, "audioId")
           ELSE find_audio_id_in(values, 1)
    ELSE IF isinstance_list(obj) THEN find_audio_id_in(obj.xs, 1)
    ELSE Null

\* The nested find_status of monitor_and_download: the first `status` key met,
\* returned whatever its value; the search goes on only past falsy sub-results.
RECURSIVE find_status(_)
RECURSIVE find_status_in(_, _)
find_status_in(xs, i) ==
    IF i > Len(xs) THEN Null
    ELSE LET result == find_status(xs[i])
         IN IF Truthy(result) THEN result ELSE find_status_in(xs, i + 1)

find_status(obj) ==
    IF isinstance_dict(obj) THEN
        IF Has(obj, "status") THEN Item(obj, "status")
        ELSE find_status_in([i \in 1..Len(obj.kv) |-> obj.kv[i][2]], 1)
    ELSE IF isinstance_list(obj) THEN find_status_in(obj.xs, 1)
    ELSE Null

\* The nested find_url of monitor_and_download_mp4.
RECURSIVE find_url(_, _)
RECURSIVE find_url_in(_, _, _)
find_url_in(xs, keys, i) ==
    IF i > Len(xs) THEN Null
    ELSE LET result == find_url(xs[i], keys)
         IN IF Truthy(result) THEN result ELSE find_url_in(xs, keys, i + 1)

find_url(obj, keys) ==
    IF isinstance_dict(obj) THEN
        LET k == FirstPresentKey(obj, keys)
        IN IF k # 0 THEN Item(obj, keys[k])
           ELSE find_url_in([i \in 1..Len(obj.kv) |-> obj.kv[i][2]], keys, 1)
    ELSE IF isinstance_list(obj) THEN find_url_in(obj.xs, keys, 1)
    ELSE Null


(***************************************************************************)
(* One iteration of the polling loop of monitor_and_download, from the     *)
(* status response to the decision taken on it.                            *)
(***************************************************************************)
AudioSuccessStatus == {Str("SUCCESS"), Str("FIRST_SUCCESS")}

AudioFailureStatus == {Str("CREATE_TASK_FAILED"), Str("GENERATE_AUDIO_FAILED"),
                       Str("CALLBACK_EXCEPTION"), Str("SENSITIVE_WORD_ERROR")}

AudioPendingStatus == {Str("PENDING"), Str("TEXT_SUCCESS")}

\* status = data.get('status'), else task_details.get('status'), else find_status.
audio_status(task_details) ==
    LET data == GetOr(task_details, "data", Dict(<<>>))
        s1 == IF isinstance_dict(data) THEN Get(data, "status") ELSE Null
        s2 == IF Truthy(s1) THEN s1 ELSE Get(task_details, "status")
    IN IF Truthy(s2) THEN s2 ELSE find_status(task_details)

\* `if api_code and api_code != 200: ... if api_code not in [200, 404]: return False`
audio_code_is_terminal(api_code) ==
    /\ Truthy(api_code)
    /\ api_code # Num(200)
    /\ api_code \notin {Num(200), Num(404)}

\* A faulty variant: only FIRST_SUCCESS ends the polling; SUCCESS is polled again.
audio_branch_success_polls_on(st, audio_url) ==
    IF st = Str("FIRST_SUCCESS") THEN (IF Truthy(audio_url) THEN "download" ELSE "false")
    ELSE IF st \in AudioFailureStatus THEN "false"
    ELSE "continue"

\* A faulty variant: a status outside the three vocabularies is taken for a failure.
audio_branch_unknown_fails(st, audio_url) ==
    IF st \in AudioSuccessStatus THEN (IF Truthy(audio_url) THEN "download" ELSE "false")
    ELSE IF st \in AudioPendingStatus THEN "continue"
    ELSE "false"

\* A faulty variant: FIRST_SUCCESS is a pending status; only SUCCESS ends the polling.
audio_branch_first_success_waits(st, audio_url) ==
    IF st = Str("SUCCESS") THEN (IF Truthy(audio_url) THEN "download" ELSE "false")
    ELSE IF st \in AudioFailureStatus THEN "false"
    ELSE "continue"

\* A faulty variant: a success status without audio URL is polled again.
audio_branch_no_url_polls_on(st, audio_url) ==
    IF st \in AudioSuccessStatus /\ Truthy(audio_url) THEN "download"
    ELSE IF st \in AudioFailureStatus THEN "false"
    ELSE "continue"

\* The branch on the status (lines 833-890): "download" the audio found, return
\* "false", or "continue" with the next cycle.
audio_branch(st, audio_url) ==
    IF st \in AudioSuccessStatus THEN (IF Truthy(audio_url) THEN "download" ELSE "false")
    ELSE IF st \in AudioFailureStatus THEN "false"
    ELSE "continue"

\* A cycle whose response passed the error-code test (lines 793-890).
audio_on_status(task_details) ==
    LET st == audio_status(task_details)
        success == st \in AudioSuccessStatus
        url == IF success THEN find_audio_url(task_details) ELSE Null
        id == IF success THEN find_audio_id(task_details) ELSE Null
    IN [do |-> audio_branch(st, url), status |-> st, audio_url |-> url, audio_id |-> id]

\* A cycle that got task details (lines 778-890).  "raise": task_details.get on a
\* value that is no dict raises AttributeError out of the function.
audio_on_details(task_details) ==
    IF ~isinstance_dict(task_details)
    THEN [do |-> "raise", status |-> Unset, audio_url |-> Null, audio_id |-> Null]
    ELSE IF audio_code_is_terminal(Get(task_details, "code"))
    THEN [do |-> "false", status |-> Unset, audio_url |-> Null, audio_id |-> Null]
    ELSE audio_on_status(task_details)

\* A faulty variant: a status check without task details ends the polling.
audio_cycle_miss_fails(task_details) ==
    IF ~Truthy(task_details)
    THEN [do |-> "false", status |-> Unset, audio_url |-> Null, audio_id |-> Null]
    ELSE audio_on_details(task_details)

\* The decision of one cycle: "miss" (no task details: wait and retry), "false"
\* (return False), "raise", "download" (download the audio found), "continue".
audio_cycle(task_details) ==
    IF ~Truthy(task_details)
    THEN [do |-> "miss", status |-> Unset, audio_url |-> Null, audio_id |-> Null]
    ELSE audio_on_details(task_details)

\* A faulty variant: the loop test lets one more cycle through.
audio_loop_test_one_more(checks, max_checks) == checks <= max_checks

\* `while checks < max_checks` (line 768).
audio_loop_test(checks, max_checks) == checks < max_checks

(***************************************************************************)
(* One iteration of the polling loop of monitor_and_download_mp4.          *)
(***************************************************************************)
VideoSuccessStatus == {Str("complete"), Str("SUCCESS"), Str("FIRST_SUCCESS")}

VideoFailureStatus == {Str("failed"), Str("FAILED"), Str("ERROR")}

FileHostBase == "https://apiboxfiles.erweima.ai"

\* A faulty variant: only the credit-exhaustion code ends the polling.
video_code_only_429(api_code) == api_code = Num(429)

\* `if api_code and api_code != 200: return False`
video_code_is_terminal(api_code) == Truthy(api_code) /\ api_code # Num(200)

\* data = task_details.get('data', {}), replaced by the root object when it is
\* empty and the root carries taskId and musicId.
video_data(task_details) ==
    LET data == GetOr(task_details, "data", Dict(<<>>))
    IN IF /\ ~Truthy(data)
          /\ isinstance_dict(task_details)
          /\ Has(task_details, "taskId")
          /\ Has(task_details, "musicId")
       THEN task_details
       ELSE data

\* status = data.get('status'); 'complete' when completeTime is set and status is not.
video_status(data) ==
    LET status == Get(data, "status")
    IN IF Truthy(Get(data, "completeTime")) /\ ~Truthy(status)
       THEN Str("complete")
       ELSE status

\* The first of the candidate fields present in data, made absolute when it is a
\* relative path; the recursive search of the whole response when that is empty.
video_url_of(task_details, data) ==
    LET k == FirstPresentKey(data, VideoUrlKeys)
        direct == IF k = 0 THEN Null ELSE Get(data, VideoUrlKeys[k])
        full == IF Truthy(direct) /\ ~StartsWith(direct.s, "http")
                THEN IF StartsWith(direct.s, "/")
                     THEN Str(FileHostBase \o direct.s)
                     ELSE Str(FileHostBase \o "/" \o direct.s)
                ELSE direct
    IN IF ~Truthy(full) THEN find_url(task_details, VideoUrlKeys) ELSE full

\* A faulty variant: a failure status is polled again.
video_branch_failure_polls_on(st, video_url) ==
    IF st \in VideoSuccessStatus THEN (IF Truthy(video_url) THEN "download" ELSE "false")
    ELSE "continue"

\* The branch on the status (lines 625-680).
video_branch(st, video_url) ==
    IF st \in VideoSuccessStatus THEN (IF Truthy(video_url) THEN "download" ELSE "false")
    ELSE IF st \in VideoFailureStatus THEN "false"
    ELSE "continue"

\* A cycle whose response passed the error-code test (lines 590-680).  "raise":
\* data.get on a value that is no dict, or startswith on a value that is no
\* string, raises AttributeError out of the function.
video_on_status(task_details) ==
    IF ~isinstance_dict(video_data(task_details)) THEN
        [do |-> "raise", status |-> Unset, video_url |-> Null]
    ELSE
        LET data == video_data(task_details)
            st == video_status(data)
            k == FirstPresentKey(data, VideoUrlKeys)
            direct == IF k = 0 THEN Null ELSE Get(data, VideoUrlKeys[k])
            success == st \in VideoSuccessStatus
        IN IF success /\ Truthy(direct) /\ direct.t # "str"
           THEN [do |-> "raise", status |-> st, video_url |-> direct]
           ELSE LET url == IF success THEN video_url_of(task_details, data) ELSE Null
                IN [do |-> video_branch(st, url), status |-> st, video_url |-> url]

\* A cycle that got task details (lines 583-680).  "raise": task_details.get on a
\* value that is no dict.
video_on_details(task_details) ==
    IF ~isinstance_dict(task_details)
    THEN [do |-> "raise", status |-> Unset, video_url |-> Null]
    ELSE IF video_code_is_terminal(Get(task_details, "code"))
    THEN [do |-> "false", status |-> Unset, video_url |-> Null]
    ELSE video_on_status(task_details)

\* The decision of one cycle: "miss", "false", "raise", "download", "continue".
video_cycle(task_details) ==
    IF ~Truthy(task_details)
    THEN [do |-> "miss", status |-> Unset, video_url |-> Null]
    ELSE video_on_details(task_details)

\* A faulty variant: one cycle too many.
video_loop_test_off_by_one(checks, max_checks) == checks <= max_checks

\* `while checks < max_checks` (line 573).
video_loop_test(checks, max_checks) == checks < max_checks

(***************************************************************************)
(* One HTTP attempt of each downloader.  The destination file is "absent", *)
(* "old" (content from before the call), "empty" (opened and truncated,    *)
(* nothing written), "partial" (some of the body) or "full" (all of it).   *)
(* An attempt ends "neterr" (no response), "httperr" (raise_for_status),   *)
(* "midstream" (the stream breaks after some chunks), "empty" (a complete  *)
(* body of zero bytes) or "body" (a complete non-empty body).              *)
(***************************************************************************)
DownloadOutcomes == {"neterr", "httperr", "midstream", "empty", "body"}

\* A faulty variant: the chunks of a complete body are not written.
written_file_drops_body(outcome, f) ==
    CASE outcome \in {"neterr", "httperr"} -> f
      [] outcome = "midstream" -> "partial"
      [] outcome \in {"empty", "body"} -> "empty"

\* A faulty variant: the destination is opened before raise_for_status.
written_file_opens_first(outcome, f) ==
    CASE outcome = "neterr" -> f
      [] outcome = "httperr" -> "empty"
      [] outcome = "midstream" -> "partial"
      [] outcome = "empty" -> "empty"
      [] outcome = "body" -> "full"

\* What the attempt leaves at the destination: open(output_path, 'wb') runs only
\* after raise_for_status, and truncates.
written_file(outcome, f) ==
    CASE outcome \in {"neterr", "httperr"} -> f
      [] outcome = "midstream" -> "partial"
      [] outcome = "empty" -> "empty"
      [] outcome = "body" -> "full"

\* download_music: True only when the attempt completes and
\* os.path.getsize(output_path) > 0.
download_music_attempt_ok(outcome) == outcome = "body"

\* download_mp4: True as soon as the attempt raises nothing.
download_mp4_attempt_ok(outcome) == outcome \in {"empty", "body"}

\* A faulty variant: the increment is lost.
download_music_retry_lost(retry_count) == retry_count

\* download_music, after a failed attempt: retry_count += 1 closes every iteration
\* and the loop test decides; the function falls out of the loop to return False.
download_music_retry(retry_count) == retry_count + 1

\* download_mp4, after a failed attempt: retry_count += 1, then return False
\* when retry_count has reached max_retries.
download_mp4_gives_up(retry_count, max_retries) == ~(retry_count + 1 < max_retries)

\* download_music, after a failed attempt: `wait_time = 2 ** retry_count`, slept
\* before retry_count is incremented.
download_music_wait(retry_count) == 2 ^ retry_count

\* A faulty variant: the same delay after every attempt.
download_mp4_wait_constant(retry_count) == 5

\* download_mp4, after a failed attempt that is not the last: `wait_time =
\* 5 * retry_count`, with retry_count already incremented.
download_mp4_wait(retry_count) == 5 * retry_count

(***************************************************************************)
(* generate_mp4: the standardized result of POST /mp4/generate.            *)
(***************************************************************************)
NotJson == [t |-> "notjson"]

Raised == [t |-> "raise"]

\* obj[key] = value on a dict.
SetItem(obj, key, value) ==
    IF Has(obj, key)
    THEN Dict([i \in 1..Len(obj.kv) |->
                 IF obj.kv[i][1] = key THEN KV(key, value) ELSE obj.kv[i]])
    ELSE Dict(Append(obj.kv, KV(key, value)))

\* A faulty variant: every failure carries the same generic code.
Failure_generic(error, error_code, data) ==
    Dict(<<KV("success", Bool(FALSE)), KV("error", error),
           KV("error_code", Str("API_ERROR")), KV("data", data)>>)

Failure(error, error_code, data) ==
    Dict(<<KV("success", Bool(FALSE)), KV("error", error),
           KV("error_code", error_code), KV("data", data)>>)

\* http is [err |-> TRUE] for a RequestException, else
\* [err |-> FALSE, status_code |-> n, body |-> JSON value or NotJson].
generate_mp4(http) ==
    IF http.err THEN
        Failure(Str("network error"), Str("NETWORK_ERROR"), Dict(<<>>))
    ELSE IF http.body = NotJson THEN
        Failure(Str("Invalid JSON response"), Str("PARSE_ERROR"), Dict(<<>>))
    ELSE IF http.status_code = 200 THEN
        IF isinstance_dict(http.body) /\ Get(http.body, "code") # Num(200) THEN
            Failure(GetOr(http.body, "msg", Str("Unknown error")),
                    Get(http.body, "code"),
                    GetOr(http.body, "data", Dict(<<>>)))
        ELSE
            LET r0 == IF ~isinstance_dict(http.body)
                      THEN Dict(<<KV("data", http.body)>>)
                      ELSE http.body
                r1 == SetItem(r0, "success", Bool(TRUE))
                r2 == IF ~Has(r1, "data") THEN SetItem(r1, "data", Dict(<<>>)) ELSE r1
                data == Item(r2, "data")
                task_id == IF isinstance_dict(data) THEN Get(data, "taskId") ELSE Null
            IN IF ~Truthy(task_id) /\ Has(r2, "taskId") THEN
                   IF isinstance_dict(data)
                   THEN SetItem(r2, "data", SetItem(data, "taskId", Item(r2, "taskId")))
                   ELSE Raised
               ELSE r2
    ELSE IF http.status_code = 401 THEN
        Failure(Str("Authentication error: You do not have access permissions"),
                Num(401), Dict(<<>>))
    ELSE
        IF isinstance_dict(http.body) /\ Has(http.body, "code") /\ Has(http.body, "msg")
        THEN Failure(Item(http.body, "msg"), Item(http.body, "code"), Dict(<<>>))
        ELSE Failure(Str("Unknown error"), Num(http.status_code), Dict(<<>>))

\* monitor_and_download, on the result of generate_mp4: the local mp4_task_id,
\* None when the chain stops before it is used (failure, or .get on a data that
\* is no dict raising into the enclosing `except Exception`).
mp4_task_id(mp4_response) ==
    IF mp4_response = Raised THEN Null
    ELSE IF ~Truthy(GetOr(mp4_response, "success", Bool(FALSE))) THEN Null
    ELSE LET data == GetOr(mp4_response, "data", Dict(<<>>))
         IN IF ~isinstance_dict(data) THEN Null ELSE Get(data, "taskId")

\* A faulty variant: the video poller is called whatever generate_mp4 returned.
mp4_task_to_monitor_whatever(mp4_response) ==
    LET id == mp4_task_id(mp4_response)
    IN IF Truthy(id) /\ id.t = "str" THEN id ELSE Str("unknown")

\* The video task id handed to monitor_and_download_mp4, None when the chain
\* stops: no task id, or one that is no string, which f.write refuses with a
\* TypeError caught by the same `except Exception`.
mp4_task_to_monitor(mp4_response) ==
    LET id == mp4_task_id(mp4_response)
    IN IF Truthy(id) /\ id.t = "str" THEN id ELSE Null

\* A faulty variant: the file is opened for writing and the id is never written.
written_sidecar_keeps_nothing(id) == Str("")

\* What a sidecar file holds after `open(..., 'w')` and `f.write(id)`: the id, or
\* nothing when the write raised after the file was truncated.
written_sidecar(id) == IF id.t = "str" THEN id ELSE Str("")


(***************************************************************************)
(* Bounds and inputs.                                                      *)
(***************************************************************************)
\* Largest max_checks (--checks) explored.
MaxChecks == 3

\* Largest max_retries explored when a downloader is called on its own.
MaxRetries == 5

\* max_retries=5, the default of download_music, which the poller relies on.
DownloadMusicMaxRetries == 5

\* max_retries=5, the default of download_mp4, which the poller relies on.
DownloadMp4MaxRetries == 5

UrlX == "https://cdn.example/x.mp3"

UrlY == "https://cdn.example/y.mp3"

UrlV == "https://cdn.example/v.mp4"

Ok200(data) == Dict(<<KV("code", Num(200)), KV("msg", Str("success")), KV("data", data)>>)

\* What check_generation_status may hand to the poller: None, or the JSON body
\* of the first endpoint that answered 200, whatever its shape.
AudioStatusResults ==
    { Null,
      Dict(<<>>),
      Ok200(Dict(<<KV("taskId", Str("t1")), KV("status", Str("PENDING"))>>)),
      Ok200(Dict(<<KV("status", Str("TEXT_SUCCESS"))>>)),
      Ok200(Dict(<<KV("status", Str("SUCCESS")), KV("audio_url", Str(UrlX)),
                   KV("audioId", Str("a1"))>>)),
      Ok200(Dict(<<KV("status", Str("SUCCESS")), KV("audio_url", Str(UrlX))>>)),
      Ok200(Dict(<<KV("status", Str("FIRST_SUCCESS")),
                   KV("response", Dict(<<KV("sunoData",
                       List(<<Dict(<<KV("id", Str("a1")), KV("audioUrl", Str(UrlY))>>)>>))>>))>>)),
      Ok200(Dict(<<KV("status", Str("SUCCESS"))>>)),
      Dict(<<KV("code", Num(200)), KV("url", Str(UrlY)),
             KV("data", Dict(<<KV("status", Str("SUCCESS")), KV("audio_url", Str(UrlX)),
                               KV("audioId", Str("a1"))>>))>>),
      Ok200(Dict(<<KV("status", Str("GENERATE_AUDIO_FAILED"))>>)),
      Ok200(Dict(<<KV("status", Str("SENSITIVE_WORD_ERROR"))>>)),
      Ok200(Dict(<<KV("status", Str("QUEUED"))>>)),
      Ok200(Dict(<<KV("taskId", Str("t1"))>>)),
      Dict(<<KV("code", Num(429)), KV("msg", Str("insufficient credits")),
             KV("data", Dict(<<KV("status", Str("SUCCESS")), KV("audio_url", Str(UrlX))>>))>>),
      Dict(<<KV("code", Num(455)), KV("msg", Str("maintenance")),
             KV("data", Dict(<<KV("status", Str("PENDING"))>>))>>),
      Dict(<<KV("code", Num(404)), KV("msg", Str("not found"))>>),
      Dict(<<KV("code", Num(404)), KV("msg", Str("not found")),
             KV("data", Dict(<<KV("status", Str("PENDING"))>>))>>),
      Dict(<<KV("status", Str("SUCCESS")), KV("audioUrl", Str(UrlX)), KV("id", Str("a1"))>>),
      List(<<Dict(<<KV("status", Str("PENDING"))>>)>>),
      Ok200(Str("queued")) }

\* What check_mp4_status may hand to the video poller.
VideoStatusResults ==
    { Null,
      Ok200(Dict(<<KV("status", Str("PENDING"))>>)),
      Ok200(Dict(<<KV("status", Str("processing"))>>)),
      Ok200(Dict(<<KV("taskId", Str("v1"))>>)),
      Ok200(Dict(<<KV("status", Str("QUEUED"))>>)),
      Ok200(Dict(<<KV("completeTime", Str("2024-01-01")), KV("video_url", Str(UrlV))>>)),
      Ok200(Dict(<<KV("status", Str("SUCCESS")), KV("videoUrl", Str(UrlV))>>)),
      Ok200(Dict(<<KV("status", Str("complete")), KV("videoPath", Str("/v.mp4"))>>)),
      Ok200(Dict(<<KV("status", Str("complete")),
                   KV("response", Dict(<<KV("videoPath", Str("v.mp4"))>>))>>)),
      Ok200(Dict(<<KV("status", Str("SUCCESS"))>>)),
      Ok200(Dict(<<KV("status", Str("FAILED")), KV("error", Str("render error"))>>)),
      Ok200(Null),
      Dict(<<KV("code", Num(404)), KV("msg", Str("not found"))>>),
      Dict(<<KV("code", Num(404)), KV("msg", Str("not found")),
             KV("data", Dict(<<KV("status", Str("PENDING"))>>))>>),
      Dict(<<KV("code", Num(429)), KV("msg", Str("insufficient credits")),
             KV("data", Dict(<<KV("status", Str("SUCCESS")), KV("videoUrl", Str(UrlV))>>))>>),
      Dict(<<KV("code", Num(455)), KV("msg", Str("maintenance")),
             KV("data", Dict(<<KV("status", Str("PENDING"))>>))>>),
      Dict(<<KV("taskId", Str("v1")), KV("musicId", Str("m1")),
             KV("status", Str("complete")), KV("url", Str(UrlV))>>),
      List(<<Dict(<<KV("status", Str("PENDING"))>>)>>),
      Ok200(Str("queued")) }

Http(status_code, body) == [err |-> FALSE, status_code |-> status_code, body |-> body]

\* What POST /mp4/generate may answer.
Mp4HttpResults ==
    { [err |-> TRUE],
      Http(200, NotJson),
      Http(200, Ok200(Dict(<<KV("taskId", Str("v1"))>>))),
      Http(200, Dict(<<KV("code", Num(200)), KV("taskId", Str("v1"))>>)),
      Http(200, Dict(<<KV("code", Num(200)), KV("data", Null), KV("taskId", Str("v1"))>>)),
      Http(200, Ok200(Dict(<<>>))),
      Http(200, Ok200(Dict(<<KV("taskId", Num(77))>>))),
      Http(200, Ok200(Null)),
      Http(200, Dict(<<KV("data", Dict(<<KV("taskId", Str("v1"))>>))>>)),
      Http(200, Dict(<<KV("code", Num(429)), KV("msg", Str("insufficient credits"))>>)),
      Http(200, Dict(<<KV("code", Num(455)), KV("msg", Str("maintenance")), KV("data", Null)>>)),
      Http(200, List(<<Str("v1")>>)),
      Http(401, Dict(<<KV("code", Num(401)), KV("msg", Str("no permission"))>>)),
      Http(500, Dict(<<KV("code", Num(500)), KV("msg", Str("server error"))>>)),
      Http(500, Dict(<<KV("error", Str("server error"))>>)),
      Http(502, NotJson) }

(***************************************************************************)
(* main: text conversions, the payload of POST /generate and the task id   *)
(* taken from its response.                                                *)
(***************************************************************************)
IsSpace(c) == c \in {" ", "\n", "\t"}

\* str.strip(): leading and trailing whitespace removed.
RECURSIVE LStrip(_)
LStrip(s) ==
    IF Len(s) > 0 /\ IsSpace(SubSeq(s, 1, 1)) THEN LStrip(SubSeq(s, 2, Len(s))) ELSE s

RECURSIVE RStrip(_)
RStrip(s) ==
    IF Len(s) > 0 /\ IsSpace(SubSeq(s, Len(s), Len(s)))
    THEN RStrip(SubSeq(s, 1, Len(s) - 1))
    ELSE s

Strip(s) == RStrip(LStrip(s))

Upper(c) == CASE c = "s" -> "S" [] c = "e" -> "E" [] c = "a" -> "A" [] OTHER -> c

Lower(c) == CASE c = "S" -> "s" [] c = "E" -> "e" [] c = "A" -> "a" [] OTHER -> c

RECURSIVE LowerAll(_)
LowerAll(s) ==
    IF Len(s) = 0 THEN s ELSE Lower(SubSeq(s, 1, 1)) \o LowerAll(SubSeq(s, 2, Len(s)))

\* A faulty variant: the first character upper case, the rest as it is.
Capitalize_first_only(s) ==
    IF Len(s) = 0 THEN s ELSE Upper(SubSeq(s, 1, 1)) \o SubSeq(s, 2, Len(s))

\* str.capitalize(): first character upper case, the rest lower case.
Capitalize(s) ==
    IF Len(s) = 0 THEN s ELSE Upper(SubSeq(s, 1, 1)) \o LowerAll(SubSeq(s, 2, Len(s)))

\* The JSON payload generate_music posts; main passes custom_mode=args.custom,
\* which is always True (store_true with default=True).
Payload(title, lyrics, instrumental) ==
    [prompt |-> lyrics, style |-> "pop", title |-> title, customMode |-> TRUE,
     instrumental |-> instrumental, model |-> "V3_5"]

\* The nested find_task_id of main: the first `taskId` key met, whatever it holds.
RECURSIVE find_task_id(_)
RECURSIVE find_task_id_in(_, _)
find_task_id_in(xs, i) ==
    IF i > Len(xs) THEN Null
    ELSE LET result == find_task_id(xs[i])
         IN IF Truthy(result) THEN result ELSE find_task_id_in(xs, i + 1)

find_task_id(obj) ==
    IF isinstance_dict(obj) THEN
        IF Has(obj, "taskId") THEN Item(obj, "taskId")
        ELSE find_task_id_in([i \in 1..Len(obj.kv) |-> obj.kv[i][2]], 1)
    ELSE IF isinstance_list(obj) THEN find_task_id_in(obj.xs, 1)
    ELSE Null

\* The task id main takes from a truthy generation_response: data.taskId, else the
\* top-level taskId, else find_task_id; None when an AttributeError is caught
\* (the response or its data is no dict) and when no id is found.
task_id_of(generation_response) ==
    IF ~isinstance_dict(generation_response) THEN Null
    ELSE LET data == GetOr(generation_response, "data", Dict(<<>>))
         IN IF ~isinstance_dict(data) THEN Null
            ELSE IF Truthy(Get(data, "taskId")) THEN Get(data, "taskId")
            ELSE IF Truthy(Get(generation_response, "taskId"))
                 THEN Get(generation_response, "taskId")
            ELSE find_task_id(generation_response)

\* generate_music on the answer to POST /generate: the JSON body of an HTTP 200,
\* None otherwise.  http is [err |-> TRUE] or [err |-> FALSE, status_code, body].
generate_music(http) ==
    IF http.err THEN Null
    ELSE IF http.status_code = 200 THEN http.body
    ELSE Null

(***************************************************************************)
(* Inputs of the functions called on their own.  A shaped response holds   *)
(* the searched field at up to five places: two top-level keys (the lower  *)
(* priority one first in the dict), data, data.results[0] and a nested     *)
(* record the recursive search alone reaches.  At each place the key is    *)
(* "absent", holds "" ("empty"), None ("null") or a value naming the place.*)
(***************************************************************************)
PlaceChoices == {"absent", "empty", "null", "value"}

\* The keys of the five places, for the audio URL and for the audio id.
UrlPlaces == [top1 |-> "audioUrl", top2 |-> "url", data |-> "audio_url",
              res |-> "audio_url", nested |-> "audioUrl"]

IdPlaces == [top1 |-> "audioId", top2 |-> "id", data |-> "audioId",
             res |-> "audioId", nested |-> "id"]

\* The items a place contributes to its dict.
Opt(key, choice, value) ==
    CASE choice = "absent" -> <<>>
      [] choice = "empty"  -> <<KV(key, Str(""))>>
      [] choice = "null"   -> <<KV(key, Null)>>
      [] choice = "value"  -> <<KV(key, Str(value))>>

Shaped(places, c) ==
    Dict(<<KV("code", Num(200))>>
         \o Opt(places.top2, c.top2, "top2")
         \o Opt(places.top1, c.top1, "top1")
         \o <<KV("data",
                 Dict(<<KV("taskId", Str("t1"))>>
                      \o Opt(places.data, c.data, "data")
                      \o <<KV("results",
                              List(<<Dict(<<KV("title", Str("song"))>>
                                          \o Opt(places.res, c.res, "res"))>>))>>))>>
         \o <<KV("response",
                 Dict(<<KV("sunoData",
                           List(<<Dict(Opt(places.nested, c.nested, "nested"))>>))>>))>>)

ShapeChoices ==
    [top1 : {"absent", "empty", "value"}, top2 : {"absent", "value"},
     data : PlaceChoices, res : PlaceChoices, nested : {"absent", "value"}]

\* Responses that hold none of the searched keys anywhere.
KeylessInputs ==
    { Null, Str("https://cdn.example/x.mp3"), Num(7), Bool(TRUE),
      List(<<>>), Dict(<<>>),
      List(<<Str("a1"), Num(0), Null>>),
      Dict(<<KV("code", Num(200)), KV("msg", Str("success"))>>),
      Dict(<<KV("code", Num(200)), KV("data", Null)>>),
      Dict(<<KV("code", Num(200)), KV("data", Str("a1"))>>),
      Dict(<<KV("data", List(<<Dict(<<KV("taskId", Str("t1"))>>)>>))>>),
      Dict(<<KV("data", Dict(<<KV("results", List(<<>>))>>))>>),
      Dict(<<KV("data", Dict(<<KV("results", List(<<Str("a1")>>))>>))>>),
      Dict(<<KV("data", Dict(<<KV("results", Dict(<<KV("taskId", Str("t1"))>>))>>))>>),
      Dict(<<KV("data", Dict(<<KV("status", Str("SUCCESS")),
                               KV("response", Dict(<<KV("sunoData",
                                   List(<<Dict(<<KV("title", Str("song"))>>),
                                          List(<<Dict(<<>>)>>)>>))>>))>>))>>) }

(***************************************************************************)
(* The status checks.  Each requests its endpoints in list order; answers  *)
(* holds what each endpoint answers when it is requested: [err |-> TRUE]   *)
(* for a RequestException, else an HTTP status code and a body.  A 200     *)
(* body that is no JSON makes response.json() raise an exception that the  *)
(* installed requests derives from RequestException (json_error_caught) or *)
(* does not.  The result is the endpoints requested and the value returned,*)
(* Raised when an exception leaves the function.                           *)
(***************************************************************************)
AudioStatusEndpoints ==
    <<"generate/record-info", "generate/status", "generate/result", "task/{id}",
      "generate/{id}">>

VideoStatusEndpoints == <<"mp4/record-info", "mp4/generate/record-info", "mp4/status">>

Resolved(endpoints, n, value) == [requested |-> SubSeq(endpoints, 1, n), value |-> value]

\* A faulty variant: only the primary endpoint is requested.
check_generation_status_primary_only(answers, json_error_caught) ==
    IF ~answers[1].err /\ answers[1].status_code = 200 /\ answers[1].body # NotJson
    THEN Resolved(AudioStatusEndpoints, 1, answers[1].body)
    ELSE Resolved(AudioStatusEndpoints, 1, Null)

\* check_generation_status from endpoint i on: one try around all requests, the
\* first 200 returned, every other status passed over.
RECURSIVE check_generation_status_from(_, _, _)
check_generation_status_from(answers, i, json_error_caught) ==
    IF i > Len(AudioStatusEndpoints) THEN
        Resolved(AudioStatusEndpoints, Len(AudioStatusEndpoints), Null)
    ELSE IF answers[i].err THEN
        Resolved(AudioStatusEndpoints, i, Null)
    ELSE IF answers[i].status_code = 200 THEN
        Resolved(AudioStatusEndpoints, i,
                 IF answers[i].body # NotJson THEN answers[i].body
                 ELSE IF json_error_caught THEN Null ELSE Raised)
    ELSE check_generation_status_from(answers, i + 1, json_error_caught)

check_generation_status(answers, json_error_caught) ==
    check_generation_status_from(answers, 1, json_error_caught)

\* check_mp4_status from endpoint i on: a try around each request, the first 200
\* returned, None at the first status that is neither 200 nor 404.
RECURSIVE check_mp4_status_from(_, _, _)
check_mp4_status_from(answers, i, json_error_caught) ==
    IF i > Len(VideoStatusEndpoints) THEN
        Resolved(VideoStatusEndpoints, Len(VideoStatusEndpoints), Null)
    ELSE IF answers[i].err THEN
        check_mp4_status_from(answers, i + 1, json_error_caught)
    ELSE IF answers[i].status_code = 200 THEN
        IF answers[i].body # NotJson THEN Resolved(VideoStatusEndpoints, i, answers[i].body)
        ELSE IF json_error_caught
        THEN check_mp4_status_from(answers, i + 1, json_error_caught)
        ELSE Resolved(VideoStatusEndpoints, i, Raised)
    ELSE IF answers[i].status_code # 404 THEN
        Resolved(VideoStatusEndpoints, i, Null)
    ELSE check_mp4_status_from(answers, i + 1, json_error_caught)

\* A faulty variant: a transport exception on the first endpoint ends the
\* resolution, as in check_generation_status.
check_mp4_status_stops_on_exception(answers, json_error_caught) ==
    IF answers[1].err THEN Resolved(VideoStatusEndpoints, 1, Null)
    ELSE check_mp4_status_from(answers, 1, json_error_caught)

check_mp4_status(answers, json_error_caught) ==
    check_mp4_status_from(answers, 1, json_error_caught)

\* What an endpoint may answer; the JSON body of a 200 names the endpoint.
AnswerKinds == {"neterr", "ok", "notjson", "notfound", "error"}

Answer(endpoint, kind) ==
    CASE kind = "neterr"   -> [err |-> TRUE]
      [] kind = "ok"       -> Http(200, Ok200(Dict(<<KV("endpoint", Str(endpoint))>>)))
      [] kind = "notjson"  -> Http(200, NotJson)
      [] kind = "notfound" -> Http(404, Dict(<<KV("code", Num(404)),
                                               KV("msg", Str("not found"))>>))
      [] kind = "error"    -> Http(500, Dict(<<KV("code", Num(500)),
                                               KV("msg", Str("server error"))>>))

AnswersOf(endpoints) ==
    { [i \in 1..Len(endpoints) |-> Answer(endpoints[i], kinds[i])] :
        kinds \in [1..Len(endpoints) -> AnswerKinds] }

NoCall == [fn |-> "none", arg |-> Null, result |-> Unset]

\* A call about to be made.
Call(fn, arg) == [fn |-> fn, arg |-> arg, result |-> Unset]

CallInputs ==
    {Call("find_audio_url", Shaped(UrlPlaces, c)) : c \in ShapeChoices}
    \cup {Call("find_audio_id", Shaped(IdPlaces, c)) : c \in ShapeChoices}
    \cup {Call(fn, arg) : fn \in {"find_audio_url", "find_audio_id"}, arg \in KeylessInputs}
    \cup {Call("generate_mp4", http) : http \in Mp4HttpResults}
    \cup {Call("check_generation_status", a) : a \in AnswersOf(AudioStatusEndpoints)}
    \cup {Call("check_mp4_status", a) : a \in AnswersOf(VideoStatusEndpoints)}

(***************************************************************************)
(* Inputs of main.                                                         *)
(***************************************************************************)
\* Largest --checks explored in a run of main.
MainMaxChecks == 1

\* args and the environment: --theme, --instrumental, --check-task and
\* --check-mp4-task (None when not given, True when given without an id, else the
\* id), and whether SUNO_API_KEY and ANTHROPIC_API_KEY are set.
Args(theme, instrumental, check_task, check_mp4_task, suno_key, anthropic_key) ==
    [theme |-> theme, instrumental |-> instrumental, check_task |-> check_task,
     check_mp4_task |-> check_mp4_task, suno_key |-> suno_key,
     anthropic_key |-> anthropic_key]

NoArgs == Args(Null, FALSE, Null, Null, FALSE, FALSE)

\* The command lines explored: the fresh run with and without --instrumental,
\* with a key or the theme missing, and the resumed runs with and without an id.
MainArgs ==
    { Args(Str("sEA"), FALSE, Null, Null, TRUE, TRUE),
      Args(Str("sEA"), TRUE, Null, Null, TRUE, TRUE),
      Args(Str("sEA"), TRUE, Null, Null, TRUE, FALSE),
      Args(Str("sEA"), FALSE, Null, Null, TRUE, FALSE),
      Args(Str("sEA"), TRUE, Null, Null, FALSE, TRUE),
      Args(Null, FALSE, Null, Null, TRUE, TRUE),
      Args(Null, TRUE, Null, Null, TRUE, TRUE),
      Args(Null, FALSE, Bool(TRUE), Null, TRUE, TRUE),
      Args(Null, TRUE, Bool(TRUE), Null, TRUE, FALSE),
      Args(Null, FALSE, Str("t1"), Null, TRUE, TRUE),
      Args(Null, FALSE, Str(" t1"), Null, TRUE, TRUE),
      Args(Null, FALSE, Null, Bool(TRUE), TRUE, TRUE),
      Args(Str("sEA"), TRUE, Null, Bool(TRUE), TRUE, FALSE),
      Args(Null, FALSE, Null, Str("v1"), TRUE, TRUE),
      Args(Null, FALSE, Null, Str("v1\n"), TRUE, TRUE),
      Args(Null, FALSE, Bool(TRUE), Bool(TRUE), TRUE, TRUE) }

\* The command lines of the later process: a resumed run without an id.
LaterArgs ==
    {a \in MainArgs : a.check_task = Bool(TRUE) \/ a.check_mp4_task = Bool(TRUE)}

\* What a sidecar file may hold when a process starts: no file, or an id left by
\* an older run, with the newline an editor adds.
SidecarContents == {Null, Str("t0\n")}

\* What LyricsGenerator.generate_lyrics may do: return title and content, or raise.
LyricsOutcomes == {Raised, [title |-> "Sea Song", content |-> "la la la"]}

\* What POST /generate may answer.
MusicHttpResults ==
    { [err |-> TRUE],
      Http(500, Dict(<<KV("code", Num(500)), KV("msg", Str("server error"))>>)),
      Http(200, NotJson),
      Http(200, Ok200(Dict(<<KV("taskId", Str("t1"))>>))),
      Http(200, Dict(<<KV("code", Num(200)), KV("taskId", Str("t2")),
                       KV("data", Dict(<<KV("taskId", Str("t1"))>>))>>)),
      Http(200, Dict(<<KV("code", Num(200)), KV("taskId", Str("t2"))>>)),
      Http(200, Ok200(Dict(<<KV("taskId", Num(77))>>))),
      Http(200, Ok200(Dict(<<>>))),
      Http(200, Dict(<<KV("code", Num(429)), KV("msg", Str("insufficient credits")),
                       KV("data", Null)>>)),
      Http(200, List(<<>>)) }

NothingSent == [lyrics |-> 0, generate |-> 0, payload |-> Unset]

\* The answers explored under main, fewer than for a poller run on its own.
MainAudioStatusResults ==
    { Null,
      Ok200(Dict(<<KV("status", Str("PENDING"))>>)),
      Ok200(Dict(<<KV("status", Str("SUCCESS")), KV("audio_url", Str(UrlX)),
                   KV("audioId", Str("a1"))>>)),
      Ok200(Dict(<<KV("status", Str("SUCCESS")), KV("audio_url", Str(UrlX))>>)),
      Ok200(Dict(<<KV("status", Str("SUCCESS"))>>)),
      Ok200(Dict(<<KV("status", Str("GENERATE_AUDIO_FAILED"))>>)),
      Dict(<<KV("code", Num(200)), KV("status", Str("PENDING")),
             KV("data", Dict(<<KV("status", Str("GENERATE_AUDIO_FAILED"))>>))>>) }

MainVideoStatusResults ==
    { Null,
      Ok200(Dict(<<KV("status", Str("PENDING"))>>)),
      Ok200(Dict(<<KV("status", Str("SUCCESS")), KV("videoUrl", Str(UrlV))>>)),
      Ok200(Dict(<<KV("status", Str("FAILED")), KV("error", Str("render error"))>>)),
      Ok200(Null) }

MainMp4HttpResults ==
    { [err |-> TRUE],
      Http(200, Ok200(Dict(<<KV("taskId", Str("v1"))>>))),
      Http(200, Ok200(Dict(<<KV("taskId", Num(77))>>))),
      Http(200, Dict(<<KV("code", Num(429)), KV("msg", Str("insufficient credits"))>>)) }

MainDownloadOutcomes == {"neterr", "empty", "body"}

(***************************************************************************)
(* State.                                                                  *)
(***************************************************************************)
VARIABLES
    entry,             \* the function this run invokes
    pc,                \* the function now running, "done" once entry has returned
    max_checks,        \* argument of both pollers
    generate_mp4_arg,  \* argument generate_mp4 of monitor_and_download
    checks,            \* local `checks` of each poller
    task_details,      \* local `task_details` of each poller: the last status result
    status,            \* local `status` of each poller
    audio_id,          \* local `audio_id` of monitor_and_download
    mp4_response,      \* local `mp4_response` of monitor_and_download
    dl,                \* the running (or last) downloader call: its arguments and locals
    file,              \* the destination file of each downloader
    ret,               \* what each function returned: "none", "True", "False", "raise"
    statusCalls,       \* number of status checks made, per poller
    strays,            \* kinds, other than "pending", of the status results before
                       \* the last, per poller
    dlCalls,           \* number of calls of each downloader
    mp4Submits,        \* number of POST /mp4/generate requests
    call,              \* a function called on its own: its name, argument and result
    argv,              \* main: the parsed command line and the environment
    lyrics,            \* main: locals lyrics_title and lyrics_content
    generation_response, \* main: local generation_response
    task_id,           \* argument task_id of each poller
    sidecar,           \* last_task_id.txt and last_mp4_task_id.txt, per poller
    sent,              \* requests of main's own stages: lyrics calls, POST /generate
                       \* requests and the last payload posted
    uncaught,          \* an exception has left main
    invocation,        \* "earlier" or "later": which of two successive processes runs
    prior              \* the task ids the earlier process polled, per poller

vars == <<entry, pc, max_checks, generate_mp4_arg, checks, task_details, status, audio_id,
          mp4_response, dl, file, ret, statusCalls, strays, dlCalls, mp4Submits, call,
          argv, lyrics, generation_response, task_id, sidecar, sent, uncaught,
          invocation, prior>>

\* The state of main's own statements.
mainVars == <<argv, lyrics, generation_response, sent, uncaught, invocation, prior>>

Pollers == {"monitor_and_download", "monitor_and_download_mp4"}

Downloaders == {"download_music", "download_mp4"}

Functions == Pollers \cup Downloaders

\* The answers the environment may give in this run.
AudioStatusInputs ==
    IF entry = "main" THEN MainAudioStatusResults ELSE AudioStatusResults

VideoStatusInputs ==
    IF entry = "main" THEN MainVideoStatusResults ELSE VideoStatusResults

Mp4HttpInputs == IF entry = "main" THEN MainMp4HttpResults ELSE Mp4HttpResults

AttemptOutcomes == IF entry = "main" THEN MainDownloadOutcomes ELSE DownloadOutcomes

\* The application code of a status result, when it is an error code.
HasErrorCode(resp) ==
    /\ isinstance_dict(resp)
    /\ Truthy(Get(resp, "code"))
    /\ Get(resp, "code") # Num(200)

\* The status at the documented place of a status result, data.status.
DataStatus(resp) ==
    IF isinstance_dict(resp) /\ isinstance_dict(Get(resp, "data"))
    THEN Get(Get(resp, "data"), "status")
    ELSE Null

\* The pending vocabulary of each poller.
PendingStatus(fn) ==
    IF fn = "monitor_and_download" THEN AudioPendingStatus
    ELSE {Str("PENDING"), Str("processing")}

\* The kind of a status result: "miss" (no response object), "pending" (a pending
\* status and no error code), "other".
ResultKind(fn, resp) ==
    IF resp = Null THEN "miss"
    ELSE IF ~HasErrorCode(resp) /\ DataStatus(resp) \in PendingStatus(fn) THEN "pending"
    ELSE "other"

TransportFailures == {"neterr", "httperr", "midstream"}

\* A downloader frame: arguments, locals retry_count and wait_time, the number
\* of time.sleep calls, and what its attempts were: how many, whether all before
\* the last failed at the transport level, and how the last one ended.
Frame(fn, url, max_retries) ==
    [fn |-> fn, url |-> url, max_retries |-> max_retries, retry_count |-> 0,
     wait_time |-> 0, sleeps |-> 0,
     attempts |-> 0, transportOnly |-> TRUE, last |-> "none"]

NoFrame == Frame("none", Null, 0)

\* A downloader that returns to a poller leaves no frame; one called on its own
\* ends the run, and its frame stays to be looked at.
Returned(frame) == IF entry \in Downloaders THEN frame ELSE NoFrame

InitOf(entries) ==
    /\ entry \in entries
    /\ pc = entry
    /\ max_checks \in (IF entry \in Pollers THEN 0..MaxChecks
                       ELSE IF entry = "main" THEN 0..MainMaxChecks
                       ELSE {0})
    /\ generate_mp4_arg \in (IF entry \in {"monitor_and_download", "main"}
                             THEN BOOLEAN ELSE {FALSE})
    /\ checks = [fn \in Pollers |-> 0]
    /\ task_details = [fn \in Pollers |-> Unset]
    /\ status = [fn \in Pollers |-> Unset]
    /\ audio_id = Unset
    /\ mp4_response = Unset
    /\ dl \in (IF entry \in Downloaders
               THEN {Frame(entry, Str(IF entry = "download_music" THEN UrlX ELSE UrlV), m) :
                        m \in 0..MaxRetries}
               ELSE {NoFrame})
    /\ file \in {f \in [Downloaders -> {"absent", "old"}] :
                    /\ (entry \notin {"download_music", "monitor_and_download"}
                            => f["download_music"] = "absent")
                    /\ (entry \notin {"download_mp4", "monitor_and_download_mp4"}
                           /\ ~generate_mp4_arg
                            => f["download_mp4"] = "absent")}
    /\ ret = [fn \in Functions |-> "none"]
    /\ statusCalls = [fn \in Pollers |-> 0]
    /\ strays = [fn \in Pollers |-> {}]
    /\ dlCalls = [fn \in Downloaders |-> IF fn = entry THEN 1 ELSE 0]
    /\ mp4Submits = 0
    /\ call \in (IF entry = "call" THEN CallInputs ELSE {NoCall})
    /\ argv \in (IF entry = "main" THEN MainArgs ELSE {NoArgs})
    /\ lyrics = Unset
    /\ generation_response = Unset
    /\ task_id = [fn \in Pollers |-> IF fn = entry THEN Str("t1") ELSE Unset]
    /\ sidecar \in (IF entry = "main" THEN [Pollers -> SidecarContents]
                    ELSE {[fn \in Pollers |-> IF fn = entry THEN Str("t1") ELSE Null]})
    /\ sent = NothingSent
    /\ uncaught = FALSE
    /\ invocation = "earlier"
    /\ prior = [fn \in Pollers |-> Unset]


(***************************************************************************)
(* Returns.  A function that returns to its caller resumes the caller at   *)
(* the statement after the call; the entry function returning ends the run.*)
(***************************************************************************)
\* A faulty variant: the video chain starts after every audio download.
after_download_music_always_chains(success) ==
    IF entry = "download_music"
    THEN [pc |-> "done", ret |-> [ret EXCEPT !["download_music"] = success]]
    ELSE [pc |-> "generate_mp4", ret |-> [ret EXCEPT !["download_music"] = success]]

\* monitor_and_download after download_music returned `success` (lines 842-883):
\* the video chain starts only when requested, with an audio id, after a
\* successful download; otherwise `return success`.
after_download_music(success) ==
    IF entry = "download_music" THEN
        [pc |-> "done", ret |-> [ret EXCEPT !["download_music"] = success]]
    ELSE IF generate_mp4_arg /\ Truthy(audio_id) /\ success = "True" THEN
        [pc |-> "generate_mp4", ret |-> [ret EXCEPT !["download_music"] = success]]
    ELSE
        [pc |-> "done", ret |-> [ret EXCEPT !["download_music"] = success,
                                            !["monitor_and_download"] = success]]

\* A faulty variant: monitor_and_download returns what the video poller returned.
after_monitor_mp4_returns_video(r, outcome) ==
    [pc |-> "done", ret |-> [r EXCEPT !["monitor_and_download_mp4"] = outcome,
                                      ![entry] = outcome]]

\* monitor_and_download_mp4 returned or raised; called from monitor_and_download
\* its outcome is dropped (an exception is caught) and `return success` follows.
after_monitor_mp4(r, outcome) ==
    IF entry = "monitor_and_download_mp4" THEN
        [pc |-> "done", ret |-> [r EXCEPT !["monitor_and_download_mp4"] = outcome]]
    ELSE
        [pc |-> "done", ret |-> [r EXCEPT !["monitor_and_download_mp4"] = outcome,
                                          !["monitor_and_download"] = r["download_music"]]]

\* download_mp4 returned `success`: monitor_and_download_mp4 returns it.
after_download_mp4(success) ==
    IF entry = "download_mp4" THEN
        [pc |-> "done", ret |-> [ret EXCEPT !["download_mp4"] = success]]
    ELSE after_monitor_mp4([ret EXCEPT !["download_mp4"] = success], success)

(***************************************************************************)
(* monitor_and_download.                                                   *)
(***************************************************************************)
Poll(fn, resp) ==
    /\ task_details' = [task_details EXCEPT ![fn] = resp]
    /\ statusCalls' = [statusCalls EXCEPT ![fn] = @ + 1]
    /\ strays' = [strays EXCEPT ![fn] =
                     IF statusCalls[fn] = 0 THEN {}
                     ELSE @ \cup ({ResultKind(fn, task_details[fn])} \ {"pending"})]

\* One pass of `while checks < max_checks` (lines 768-893).
monitor_and_download ==
    /\ pc = "monitor_and_download"
    /\ audio_loop_test(checks["monitor_and_download"], max_checks)
    /\ \E resp \in AudioStatusInputs :
        LET c == audio_cycle(resp)
        IN /\ Poll("monitor_and_download", resp)
           /\ status' = IF c.status = Unset THEN status
                        ELSE [status EXCEPT !["monitor_and_download"] = c.status]
           /\ CASE c.do \in {"miss", "continue"} ->
                     /\ checks' = [checks EXCEPT !["monitor_and_download"] = @ + 1]
                     /\ UNCHANGED <<pc, ret, audio_id, dl, dlCalls>>
                [] c.do \in {"false", "raise"} ->
                     /\ pc' = "done"
                     /\ ret' = [ret EXCEPT !["monitor_and_download"] =
                                    IF c.do = "raise" THEN "raise" ELSE "False"]
                     /\ UNCHANGED <<checks, audio_id, dl, dlCalls>>
                [] c.do = "download" ->
                     /\ pc' = "download_music"
                     /\ audio_id' = c.audio_id
                     /\ dl' = Frame("download_music", c.audio_url, DownloadMusicMaxRetries)
                     /\ dlCalls' = [dlCalls EXCEPT !["download_music"] = @ + 1]
                     /\ UNCHANGED <<checks, ret>>
    /\ UNCHANGED <<mainVars, task_id, sidecar, call, entry, max_checks, generate_mp4_arg, mp4_response, file, mp4Submits>>

\* The loop ends with checks = max_checks: return False (lines 895-897).
monitor_and_download_exhausted ==
    /\ pc = "monitor_and_download"
    /\ ~audio_loop_test(checks["monitor_and_download"], max_checks)
    /\ pc' = "done"
    /\ ret' = [ret EXCEPT !["monitor_and_download"] = "False"]
    /\ UNCHANGED <<mainVars, task_id, sidecar, call, entry, max_checks, generate_mp4_arg, checks, task_details, status,
                   audio_id, mp4_response, dl, file, statusCalls, strays, dlCalls,
                   mp4Submits>>

(***************************************************************************)
(* download_music.                                                         *)
(***************************************************************************)
Attempt(outcome) ==
    [dl EXCEPT !.attempts = @ + 1,
               !.transportOnly = @ /\ (dl.last \in TransportFailures \cup {"none"}),
               !.last = outcome]

\* One pass of `while retry_count < max_retries` (lines 702-740).
download_music ==
    /\ pc = "download_music"
    /\ dl.retry_count < dl.max_retries
    /\ \E outcome \in AttemptOutcomes :
        /\ file' = [file EXCEPT !["download_music"] = written_file(outcome, @)]
        /\ IF download_music_attempt_ok(outcome)
           THEN /\ dl' = Returned(Attempt(outcome))
                /\ pc' = after_download_music("True").pc
                /\ ret' = after_download_music("True").ret
           ELSE /\ dl' = [Attempt(outcome) EXCEPT
                             !.wait_time = download_music_wait(dl.retry_count),
                             !.sleeps = @ + 1,
                             !.retry_count = download_music_retry(dl.retry_count)]
                /\ UNCHANGED <<pc, ret>>
    /\ UNCHANGED <<mainVars, task_id, sidecar, call, entry, max_checks, generate_mp4_arg, checks, task_details, status,
                   audio_id, mp4_response, statusCalls, strays, dlCalls, mp4Submits>>

\* The loop ends: return False (line 742).
download_music_exhausted ==
    /\ pc = "download_music"
    /\ ~(dl.retry_count < dl.max_retries)
    /\ pc' = after_download_music("False").pc
    /\ ret' = after_download_music("False").ret
    /\ dl' = Returned(dl)
    /\ UNCHANGED <<mainVars, task_id, sidecar, call, entry, max_checks, generate_mp4_arg, checks, task_details, status,
                   audio_id, mp4_response, file, statusCalls, strays, dlCalls,
                   mp4Submits>>

(***************************************************************************)
(* The video chain of monitor_and_download: generate_mp4, then             *)
(* monitor_and_download_mp4 on the task id it returned (lines 850-880).    *)
(***************************************************************************)
submit_mp4 ==
    /\ pc = "generate_mp4"
    /\ \E http \in Mp4HttpInputs :
        LET r == generate_mp4(http)
            id == mp4_task_id(r)
        IN /\ mp4_response' = r
           /\ mp4Submits' = mp4Submits + 1
           /\ sidecar' = IF Truthy(id)
                         THEN [sidecar EXCEPT !["monitor_and_download_mp4"] =
                                                  written_sidecar(id)]
                         ELSE sidecar
           /\ IF Truthy(mp4_task_to_monitor(r))
              THEN /\ pc' = "monitor_and_download_mp4"
                   /\ task_id' = [task_id EXCEPT !["monitor_and_download_mp4"] = id]
                   /\ UNCHANGED ret
              ELSE /\ pc' = "done"
                   /\ ret' = [ret EXCEPT !["monitor_and_download"] = ret["download_music"]]
                   /\ UNCHANGED task_id
    /\ UNCHANGED <<mainVars, call, entry, max_checks, generate_mp4_arg, checks,
                   task_details, status, audio_id, dl, file, statusCalls, strays, dlCalls>>

(***************************************************************************)
(* monitor_and_download_mp4.                                               *)
(***************************************************************************)
\* One pass of `while checks < max_checks` (lines 573-683).
monitor_and_download_mp4 ==
    /\ pc = "monitor_and_download_mp4"
    /\ video_loop_test(checks["monitor_and_download_mp4"], max_checks)
    /\ \E resp \in VideoStatusInputs :
        LET c == video_cycle(resp)
        IN /\ Poll("monitor_and_download_mp4", resp)
           /\ status' = IF c.status = Unset THEN status
                        ELSE [status EXCEPT !["monitor_and_download_mp4"] = c.status]
           /\ CASE c.do \in {"miss", "continue"} ->
                     /\ checks' = [checks EXCEPT !["monitor_and_download_mp4"] = @ + 1]
                     /\ UNCHANGED <<pc, ret, dl, dlCalls>>
                [] c.do \in {"false", "raise"} ->
                     /\ pc' = "done"
                     /\ ret' = after_monitor_mp4(ret,
                                   IF c.do = "raise" THEN "raise" ELSE "False").ret
                     /\ UNCHANGED <<checks, dl, dlCalls>>
                [] c.do = "download" ->
                     /\ pc' = "download_mp4"
                     /\ dl' = Frame("download_mp4", c.video_url, DownloadMp4MaxRetries)
                     /\ dlCalls' = [dlCalls EXCEPT !["download_mp4"] = @ + 1]
                     /\ UNCHANGED <<checks, ret>>
    /\ UNCHANGED <<mainVars, task_id, sidecar, call, entry, max_checks, generate_mp4_arg, audio_id, mp4_response, file,
                   mp4Submits>>

\* The loop ends with checks = max_checks: return False (lines 685-687).
monitor_and_download_mp4_exhausted ==
    /\ pc = "monitor_and_download_mp4"
    /\ ~video_loop_test(checks["monitor_and_download_mp4"], max_checks)
    /\ pc' = "done"
    /\ ret' = after_monitor_mp4(ret, "False").ret
    /\ UNCHANGED <<mainVars, task_id, sidecar, call, entry, max_checks, generate_mp4_arg, checks, task_details, status,
                   audio_id, mp4_response, dl, file, statusCalls, strays, dlCalls,
                   mp4Submits>>

(***************************************************************************)
(* download_mp4.                                                           *)
(***************************************************************************)
\* One pass of `while retry_count < max_retries` (lines 521-548).
download_mp4 ==
    /\ pc = "download_mp4"
    /\ dl.retry_count < dl.max_retries
    /\ \E outcome \in AttemptOutcomes :
        /\ file' = [file EXCEPT !["download_mp4"] = written_file(outcome, @)]
        /\ IF download_mp4_attempt_ok(outcome)
           THEN /\ dl' = Returned(Attempt(outcome))
                /\ pc' = after_download_mp4("True").pc
                /\ ret' = after_download_mp4("True").ret
           ELSE IF download_mp4_gives_up(dl.retry_count, dl.max_retries)
           THEN /\ dl' = Returned([Attempt(outcome) EXCEPT !.retry_count = @ + 1])
                /\ pc' = after_download_mp4("False").pc
                /\ ret' = after_download_mp4("False").ret
           ELSE /\ dl' = [Attempt(outcome) EXCEPT
                             !.retry_count = @ + 1,
                             !.wait_time = download_mp4_wait(dl.retry_count + 1),
                             !.sleeps = @ + 1]
                /\ UNCHANGED <<pc, ret>>
    /\ UNCHANGED <<mainVars, task_id, sidecar, call, entry, max_checks, generate_mp4_arg, checks, task_details, status,
                   audio_id, mp4_response, statusCalls, strays, dlCalls, mp4Submits>>

\* The loop is never entered (max_retries <= 0): return False (line 550).
download_mp4_exhausted ==
    /\ pc = "download_mp4"
    /\ ~(dl.retry_count < dl.max_retries)
    /\ pc' = after_download_mp4("False").pc
    /\ ret' = after_download_mp4("False").ret
    /\ dl' = Returned(dl)
    /\ UNCHANGED <<mainVars, task_id, sidecar, call, entry, max_checks, generate_mp4_arg, checks, task_details, status,
                   audio_id, mp4_response, file, statusCalls, strays, dlCalls,
                   mp4Submits>>

\* The pollers, which call the downloaders with the default max_retries: there
\* download_mp4 never leaves its loop by the loop test.
Init == InitOf(Pollers)

Next ==
    \/ monitor_and_download
    \/ monitor_and_download_exhausted
    \/ download_music
    \/ download_music_exhausted
    \/ submit_mp4
    \/ monitor_and_download_mp4
    \/ monitor_and_download_mp4_exhausted
    \/ download_mp4

Spec == Init /\ [][Next]_vars

\* The downloaders called on their own, with max_retries in 0..MaxRetries.
InitDownloaders == InitOf(Downloaders)

NextDownloaders ==
    \/ download_music
    \/ download_music_exhausted
    \/ download_mp4
    \/ download_mp4_exhausted

SpecDownloaders == InitDownloaders /\ [][NextDownloaders]_vars

(***************************************************************************)
(* The extractors, generate_mp4 and the status checks called on their own, *)
(* on one argument.                                                        *)
(***************************************************************************)
Called(fn, result) ==
    /\ pc = "call"
    /\ call.fn = fn
    /\ call' = [call EXCEPT !.result = result]
    /\ pc' = "done"
    /\ UNCHANGED <<mainVars, task_id, sidecar, entry, max_checks, generate_mp4_arg,
                   checks, task_details, status, audio_id, mp4_response, dl, file, ret,
                   statusCalls, strays, dlCalls, mp4Submits>>

call_find_audio_url == Called("find_audio_url", find_audio_url(call.arg))

call_find_audio_id == Called("find_audio_id", find_audio_id(call.arg))

call_generate_mp4 == Called("generate_mp4", generate_mp4(call.arg))

call_check_generation_status ==
    \E json_error_caught \in BOOLEAN :
        Called("check_generation_status",
               check_generation_status(call.arg, json_error_caught))

call_check_mp4_status ==
    \E json_error_caught \in BOOLEAN :
        Called("check_mp4_status", check_mp4_status(call.arg, json_error_caught))

InitCalls == InitOf({"call"})

NextCalls ==
    \/ call_find_audio_url
    \/ call_find_audio_id
    \/ call_generate_mp4
    \/ call_check_generation_status
    \/ call_check_mp4_status

SpecCalls == InitCalls /\ [][NextCalls]_vars


(***************************************************************************)
(* main.  Each action runs main from one external call to the next; the    *)
(* call of a poller takes in the poller's prologue, which records the task *)
(* id in its sidecar file before the polling loop.                         *)
(***************************************************************************)
\* `return` from main before any poller is called.
MainReturns ==
    /\ pc' = "done"
    /\ UNCHANGED <<task_id, sidecar>>

\* The call of poller fn on task id: `with open(..., 'w') as f: f.write(task_id)`,
\* then the loop; the write of an id that is no string raises out of main.
Enter(fn, id) ==
    /\ pc' = IF id.t = "str" THEN fn ELSE "done"
    /\ task_id' = [task_id EXCEPT ![fn] = id]
    /\ sidecar' = [sidecar EXCEPT ![fn] = written_sidecar(id)]

\* A faulty variant: a missing sidecar file is read as an empty one.
Resume_reads_missing_as_empty(fn, given) ==
    IF given = Bool(TRUE)
    THEN Enter(fn, Str(IF sidecar[fn] = Null THEN "" ELSE Strip(sidecar[fn].s)))
    ELSE Enter(fn, given)

\* --check-task / --check-mp4-task: the id given, or, when the flag came without
\* one, the stripped content of the sidecar file; FileNotFoundError ends main.
Resume(fn, given) ==
    IF given = Bool(TRUE)
    THEN IF sidecar[fn] = Null
         THEN MainReturns
         ELSE Enter(fn, Str(Strip(sidecar[fn].s)))
    ELSE Enter(fn, given)

\* From the start of main to its first external call (lines 920-1003).
main ==
    /\ pc = "main"
    /\ IF ~argv.suno_key \/ (~argv.instrumental /\ ~argv.anthropic_key) THEN
           MainReturns /\ UNCHANGED lyrics
       ELSE IF Truthy(argv.check_mp4_task) THEN
           Resume("monitor_and_download_mp4", argv.check_mp4_task) /\ UNCHANGED lyrics
       ELSE IF Truthy(argv.check_task) THEN
           Resume("monitor_and_download", argv.check_task) /\ UNCHANGED lyrics
       ELSE IF ~Truthy(argv.theme) THEN
           MainReturns /\ UNCHANGED lyrics
       ELSE IF argv.instrumental THEN
           /\ pc' = "generate_music"
           /\ lyrics' = [title |-> Capitalize(argv.theme.s), content |-> argv.theme.s]
           /\ UNCHANGED <<task_id, sidecar>>
       ELSE
           /\ pc' = "generate_lyrics"
           /\ lyrics' = [title |-> "", content |-> ""]
           /\ UNCHANGED <<task_id, sidecar>>
    /\ UNCHANGED <<argv, generation_response, sent, uncaught, invocation, prior, call,
                   entry, max_checks, generate_mp4_arg, checks, task_details, status,
                   audio_id, mp4_response, dl, file, ret, statusCalls, strays, dlCalls,
                   mp4Submits>>

\* lyrics_gen.generate_lyrics(...) returns, or raises out of main (lines 984-993).
generate_lyrics ==
    /\ pc = "generate_lyrics"
    /\ sent' = [sent EXCEPT !.lyrics = @ + 1]
    /\ \E out \in LyricsOutcomes :
        IF out = Raised
        THEN /\ pc' = "done"
             /\ uncaught' = TRUE
             /\ UNCHANGED lyrics
        ELSE /\ pc' = "generate_music"
             /\ lyrics' = out
             /\ UNCHANGED uncaught
    /\ UNCHANGED <<argv, generation_response, invocation, prior, task_id, sidecar, call,
                   entry, max_checks, generate_mp4_arg, checks, task_details, status,
                   audio_id, mp4_response, dl, file, ret, statusCalls, strays, dlCalls,
                   mp4Submits>>

\* music_gen.generate_music(...) and what main does with its result, up to the
\* call of monitor_and_download (lines 1007-1065).  response.json() on a body
\* that is not JSON raises an exception that the installed requests derives from
\* RequestException (caught: None) or does not (it leaves main).
submit_music ==
    /\ pc = "generate_music"
    /\ sent' = [sent EXCEPT !.generate = @ + 1,
                            !.payload = Payload(lyrics.title, lyrics.content,
                                                argv.instrumental)]
    /\ \E http \in MusicHttpResults, caught \in BOOLEAN :
        IF ~http.err /\ http.status_code = 200 /\ http.body = NotJson THEN
            /\ generation_response' = IF caught THEN Null ELSE Unset
            /\ uncaught' = ~caught
            /\ MainReturns
        ELSE
            LET r == generate_music(http)
                id == IF Truthy(r) THEN task_id_of(r) ELSE Null
            IN /\ caught
               /\ generation_response' = r
               /\ IF ~Truthy(id) THEN
                      MainReturns /\ UNCHANGED uncaught
                  ELSE
                      /\ Enter("monitor_and_download", id)
                      /\ uncaught' = (id.t # "str")
    /\ UNCHANGED <<argv, lyrics, invocation, prior, call, entry, max_checks,
                   generate_mp4_arg, checks, task_details, status, audio_id,
                   mp4_response, dl, file, ret, statusCalls, strays, dlCalls, mp4Submits>>

\* The process has ended and a later one starts, a resumed run without an id and
\* without --generate-mp4: only the files stay.
next_invocation ==
    /\ entry = "main"
    /\ pc = "done"
    /\ invocation = "earlier"
    /\ invocation' = "later"
    /\ prior' = [fn \in Pollers |-> IF task_id[fn].t = "str" THEN task_id[fn] ELSE Unset]
    /\ pc' = "main"
    /\ argv' \in LaterArgs
    /\ max_checks' \in 0..MainMaxChecks
    /\ generate_mp4_arg' = FALSE
    /\ checks' = [fn \in Pollers |-> 0]
    /\ task_details' = [fn \in Pollers |-> Unset]
    /\ status' = [fn \in Pollers |-> Unset]
    /\ audio_id' = Unset
    /\ mp4_response' = Unset
    /\ dl' = NoFrame
    /\ file' = [fn \in Downloaders |-> IF file[fn] = "absent" THEN "absent" ELSE "old"]
    /\ ret' = [fn \in Functions |-> "none"]
    /\ statusCalls' = [fn \in Pollers |-> 0]
    /\ strays' = [fn \in Pollers |-> {}]
    /\ dlCalls' = [fn \in Downloaders |-> 0]
    /\ mp4Submits' = 0
    /\ lyrics' = Unset
    /\ generation_response' = Unset
    /\ task_id' = [fn \in Pollers |-> Unset]
    /\ sent' = NothingSent
    /\ uncaught' = FALSE
    /\ UNCHANGED <<entry, sidecar, call>>

InitMain == InitOf({"main"})

NextMain ==
    \/ main
    \/ generate_lyrics
    \/ submit_music
    \/ monitor_and_download
    \/ monitor_and_download_exhausted
    \/ download_music
    \/ download_music_exhausted
    \/ submit_mp4
    \/ monitor_and_download_mp4
    \/ monitor_and_download_mp4_exhausted
    \/ download_mp4
    \/ next_invocation

SpecMain == InitMain /\ [][NextMain]_vars

(***************************************************************************)
(* Properties.                                                             *)
(***************************************************************************)
DownloaderOf(fn) ==
    IF fn = "monitor_and_download" THEN "download_music" ELSE "download_mp4"

SuccessStatus(fn) ==
    IF fn = "monitor_and_download" THEN AudioSuccessStatus ELSE VideoSuccessStatus

FailureStatus(fn) ==
    IF fn = "monitor_and_download" THEN AudioFailureStatus ELSE VideoFailureStatus

\* Every status result poller fn has received so far is a pending one.
AllPending(fn) ==
    /\ strays[fn] = {}
    /\ statusCalls[fn] > 0 => ResultKind(fn, task_details[fn]) = "pending"

\* The scripted success response: no error code, data.status = SUCCESS,
\* data.audio_url = x, and no URL field at the top level.
ScriptedSuccess(resp, x) ==
    /\ isinstance_dict(resp)
    /\ ~HasErrorCode(resp)
    /\ DataStatus(resp) = Str("SUCCESS")
    /\ Get(Get(resp, "data"), "audio_url") = Str(x)
    /\ \A i \in 1..Len(AudioUrlKeys) : ~Has(resp, AudioUrlKeys[i])

\* A status result of the documented shape: a dict without error code whose data
\* is a dict.
PlainResult(resp) ==
    /\ isinstance_dict(resp)
    /\ ~HasErrorCode(resp)
    /\ isinstance_dict(Get(resp, "data"))

\* C1: in the audio poller, when the first k status results are pending ones and
\* result k+1 is SUCCESS with data.audio_url = X, exactly k+1 status checks are
\* made (the k pending cycles were counted, the poller polls no more), the
\* downloader is called once, with X, and the poller returns what it returned.
C1_PendingThenSuccess ==
    \A x \in {UrlX, UrlY} :
        ( /\ statusCalls["monitor_and_download"] > 0
          /\ strays["monitor_and_download"] = {}
          /\ ScriptedSuccess(task_details["monitor_and_download"], x) )
        => /\ statusCalls["monitor_and_download"] = checks["monitor_and_download"] + 1
           /\ pc # "monitor_and_download"
           /\ dlCalls["download_music"] = 1
           /\ pc = "download_music" => dl.fn = "download_music" /\ dl.url = Str(x)
           /\ pc # "download_music" => ret["download_music"] \in {"True", "False"}
           /\ pc = "done" => ret["monitor_and_download"] = ret["download_music"]

C1_Witness ==
    /\ pc = "done"
    /\ ~generate_mp4_arg
    /\ statusCalls["monitor_and_download"] = 3
    /\ strays["monitor_and_download"] = {}
    /\ ScriptedSuccess(task_details["monitor_and_download"], UrlX)
    /\ ret["monitor_and_download"] = "True"
    /\ file["download_music"] = "full"

\* C2: in both pollers the number of poll cycles never exceeds max_checks, and
\* while every status result is a pending one no download is attempted and the
\* poller, once it returns, returns False after exactly max_checks cycles.
C2_PendingExhausts ==
    \A fn \in Pollers :
        /\ statusCalls[fn] <= max_checks
        /\ checks[fn] <= max_checks
        /\ AllPending(fn) =>
              /\ dlCalls[DownloaderOf(fn)] = 0
              /\ statusCalls[fn] = checks[fn]
              /\ ret[fn] \in {"none", "False"}
              /\ ret[fn] = "False" => statusCalls[fn] = max_checks
              /\ statusCalls[fn] > 0 => pc = fn \/ ret[fn] = "False"

C2_Witness ==
    /\ entry = "monitor_and_download_mp4"
    /\ max_checks = 3
    /\ AllPending("monitor_and_download_mp4")
    /\ statusCalls["monitor_and_download_mp4"] = 3
    /\ ret["monitor_and_download_mp4"] = "False"
    /\ pc = "done"

\* C3: in both pollers, once the status of a cycle is a terminal one (success or
\* failure family) the poller makes no further status check and the cycle is
\* not counted against the remaining attempts; a failure status makes the poller
\* return False without any download.
C3_TerminalStops ==
    /\ [](\A fn \in Pollers :
            /\ status[fn] \in SuccessStatus(fn) \cup FailureStatus(fn) =>
                  /\ pc # fn
                  /\ statusCalls[fn] = checks[fn] + 1
            /\ status[fn] \in FailureStatus(fn) =>
                  /\ ret[fn] = "False"
                  /\ dlCalls[DownloaderOf(fn)] = 0)
    /\ [][\A fn \in Pollers :
            status[fn] \in SuccessStatus(fn) \cup FailureStatus(fn) =>
                /\ statusCalls'[fn] = statusCalls[fn]
                /\ checks'[fn] = checks[fn]]_vars

C3_Witness ==
    /\ max_checks = 3
    /\ statusCalls["monitor_and_download"] = 1
    /\ status["monitor_and_download"] \in AudioFailureStatus
    /\ ret["monitor_and_download"] = "False"
    /\ pc = "done"

\* C4: in both pollers a status check that yields no response object never ends
\* the polling on that cycle: the cycle is counted, the poller stays in its loop,
\* and while attempts remain its next step is the next status check.
C4_MissIsTransient ==
    /\ [][\A fn \in Pollers :
            (statusCalls'[fn] = statusCalls[fn] + 1 /\ task_details'[fn] = Null) =>
                /\ pc' = fn
                /\ ret'[fn] = "none"
                /\ checks'[fn] = checks[fn] + 1]_vars
    /\ [][\A fn \in Pollers :
            (pc = fn /\ task_details[fn] = Null /\ checks[fn] < max_checks) =>
                statusCalls'[fn] = statusCalls[fn] + 1]_vars

C4_Witness ==
    /\ "miss" \in strays["monitor_and_download"]
    /\ status["monitor_and_download"] \in AudioSuccessStatus
    /\ ret["monitor_and_download"] = "True"

\* C5: in both pollers a status result that carries application code 429 or 455
\* ends the polling on that cycle with False: no further status check, no
\* download, whatever status and URL the same result carries.
C5_TerminalErrorCode ==
    \A fn \in Pollers :
        ( /\ statusCalls[fn] > 0
          /\ isinstance_dict(task_details[fn])
          /\ Get(task_details[fn], "code") \in {Num(429), Num(455)} )
        => /\ ret[fn] = "False"
           /\ pc # fn
           /\ statusCalls[fn] = checks[fn] + 1
           /\ dlCalls[DownloaderOf(fn)] = 0

C5_Witness ==
    /\ statusCalls["monitor_and_download"] = 2
    /\ isinstance_dict(task_details["monitor_and_download"])
    /\ Get(task_details["monitor_and_download"], "code") = Num(429)
    /\ DataStatus(task_details["monitor_and_download"]) = Str("SUCCESS")
    /\ ret["monitor_and_download"] = "False"

\* C6: in both pollers a status result that carries application code 404, and no
\* terminal status, does not end the polling on that cycle: the cycle is counted
\* as one more attempt and the poller has not returned because of it.
C6_NotFoundIsTransient ==
    \A fn \in Pollers :
        ( /\ statusCalls[fn] > 0
          /\ isinstance_dict(task_details[fn])
          /\ Get(task_details[fn], "code") = Num(404)
          /\ DataStatus(task_details[fn]) \in PendingStatus(fn) \cup {Null} )
        => statusCalls[fn] = checks[fn]

\* C7: in both pollers a cycle whose status is outside the success, failure and
\* pending vocabularies (an absent status included) is handled as a pending one:
\* it is counted, no outcome and no download come of it, and the poller goes on
\* until max_checks.
C7_UnknownStatusIsPending ==
    \A fn \in Pollers :
        ( /\ statusCalls[fn] > 0
          /\ PlainResult(task_details[fn])
          /\ status[fn] \notin SuccessStatus(fn) \cup FailureStatus(fn) \cup PendingStatus(fn) )
        => /\ statusCalls[fn] = checks[fn]
           /\ pc = fn \/ (ret[fn] = "False" /\ checks[fn] = max_checks)

C7_Witness ==
    /\ pc = "monitor_and_download"
    /\ checks["monitor_and_download"] = 2
    /\ DataStatus(task_details["monitor_and_download"]) = Str("QUEUED")
    /\ status["monitor_and_download"] = Str("QUEUED")
    /\ "other" \in strays["monitor_and_download"]

\* Every attempt of the downloader call failed at the transport level.
AllTransportFailures == dl.transportOnly /\ dl.last \in TransportFailures \cup {"none"}

\* C8: for both downloaders with max_retries = 5, when attempts 1 and 2 fail at
\* the transport level and attempt 3 completes with a non-empty body, the call
\* has returned True after these 3 attempts and the destination file holds the
\* whole body, so it is not empty.
C8_ThirdAttemptSucceeds ==
    ( /\ dl.fn \in Downloaders
      /\ dl.max_retries = 5
      /\ dl.attempts = 3
      /\ dl.transportOnly
      /\ dl.last = "body" )
    => /\ pc = "done"
       /\ ret[dl.fn] = "True"
       /\ file[dl.fn] = "full"

C8_Witness ==
    /\ dl.fn = "download_mp4"
    /\ dl.max_retries = 5
    /\ dl.attempts = 3
    /\ dl.transportOnly
    /\ dl.last = "body"
    /\ ret["download_mp4"] = "True"
    /\ file["download_mp4"] = "full"

\* C9: for both downloaders an attempt that completes with a zero-byte file is a
\* failed attempt, and no downloader returns True while the file is empty.
C9_EmptyFileIsFailure ==
    \A fn \in Downloaders :
        ret[fn] = "True" => file[fn] # "empty" /\ (dl.fn = fn => dl.last # "empty")

\* C10: both downloaders make at most max_retries attempts; when every attempt
\* fails at the transport level they return False after exactly max_retries
\* attempts, and with max_retries = 0 they return False without any attempt.
C10_BoundedAttempts ==
    /\ dl.attempts <= dl.max_retries
    /\ (dl.fn \in Downloaders /\ pc = "done" /\ AllTransportFailures) =>
          /\ ret[dl.fn] = "False"
          /\ dl.attempts = dl.max_retries

C10_Witness ==
    /\ dl.fn = "download_music"
    /\ dl.max_retries = 5
    /\ dl.attempts = 5
    /\ AllTransportFailures
    /\ pc = "done"
    /\ ret["download_music"] = "False"

\* obj.get(key) when obj is a dict, None otherwise.
At(obj, key) == IF isinstance_dict(obj) THEN Get(obj, key) ELSE Null

\* xs[0] when xs is a non-empty list, None otherwise.
First(xs) == IF isinstance_list(xs) /\ xs.xs # <<>> THEN xs.xs[1] ELSE Null

Site(in, key) == [in |-> in, key |-> key]

\* The places where the extractors look, in probe order: the top-level keys, data,
\* data.results[0]; last, a nested record that the recursive search alone reaches.
UrlSites(obj) ==
    [i \in 1..Len(AudioUrlKeys) |-> Site(obj, AudioUrlKeys[i])]
    \o << Site(At(obj, "data"), "audio_url"),
          Site(First(At(At(obj, "data"), "results")), "audio_url"),
          Site(First(At(At(obj, "response"), "sunoData")), "audioUrl") >>

IdSites(obj) ==
    [i \in 1..Len(AudioIdKeys) |-> Site(obj, AudioIdKeys[i])]
    \o << Site(At(obj, "data"), "audioId"),
          Site(First(At(At(obj, "data"), "results")), "audioId"),
          Site(First(At(At(obj, "response"), "sunoData")), "id") >>

Extractors == {"find_audio_url", "find_audio_id"}

SitesOf(fn, obj) == IF fn = "find_audio_url" THEN UrlSites(obj) ELSE IdSites(obj)

KeysOf(fn) == IF fn = "find_audio_url" THEN AudioUrlKeys ELSE AudioIdKeys

Present(site) == isinstance_dict(site.in) /\ Has(site.in, site.key)

NonEmpty(site) == Truthy(At(site.in, site.key))

\* The sites holding a non-empty value, and the first of them in probe order.
NonEmptySites(sites) == {i \in 1..Len(sites) : NonEmpty(sites[i])}

FirstNonEmpty(sites) ==
    CHOOSE i \in NonEmptySites(sites) : \A j \in NonEmptySites(sites) : i <= j

\* How many times a key of `keys` occurs in obj, at any depth.
RECURSIVE CountKeys(_, _)
RECURSIVE CountKeysIn(_, _, _)
CountKeysIn(xs, keys, i) ==
    IF i > Len(xs) THEN 0 ELSE CountKeys(xs[i], keys) + CountKeysIn(xs, keys, i + 1)

CountKeys(obj, keys) ==
    IF isinstance_dict(obj) THEN
        Cardinality({i \in 1..Len(keys) : Has(obj, keys[i])})
        + CountKeysIn([i \in 1..Len(obj.kv) |-> obj.kv[i][2]], keys, 1)
    ELSE IF isinstance_list(obj) THEN CountKeysIn(obj.xs, keys, 1)
    ELSE 0

\* An extractor has been called and has returned.
Extracted(fn) == call.fn = fn /\ call.result # Unset

\* C11: when a non-empty audio URL stands at several places of a response,
\* find_audio_url returns the one at the first place in probe order (top-level
\* keys in their order, data.audio_url, data.results[0].audio_url, recursion).
C11_HighestPriorityWins ==
    LET sites == UrlSites(call.arg)
    IN (Extracted("find_audio_url") /\ Cardinality(NonEmptySites(sites)) >= 2)
       => call.result = At(sites[FirstNonEmpty(sites)].in, sites[FirstNonEmpty(sites)].key)

\* C12: for both extractors, when a key is present with an empty or null value at
\* a place that comes before the first place holding a non-empty value, the
\* empty one is skipped and that non-empty value is returned.
C12_EmptyIsSkipped ==
    \A fn \in Extractors :
        LET sites == SitesOf(fn, call.arg)
        IN ( /\ Extracted(fn)
             /\ NonEmptySites(sites) # {}
             /\ \E i \in 1..Len(sites) :
                   i < FirstNonEmpty(sites) /\ Present(sites[i]) /\ ~NonEmpty(sites[i]) )
           => call.result = At(sites[FirstNonEmpty(sites)].in, sites[FirstNonEmpty(sites)].key)

\* C13: for both extractors, a response that holds none of the candidate keys at
\* any depth (dicts, lists and scalars alike) yields None.
C13_NoKeyYieldsNone ==
    \A fn \in Extractors :
        (Extracted(fn) /\ CountKeys(call.arg, KeysOf(fn)) = 0) => call.result = Null

C13_Witness ==
    /\ Extracted("find_audio_id")
    /\ isinstance_list(At(At(At(call.arg, "data"), "response"), "sunoData"))
    /\ CountKeys(call.arg, AudioIdKeys) = 0
    /\ call.result = Null

\* C14: for both extractors, when the searched field holds a non-empty value at
\* exactly one of the probed places (top level, data, data.results[0]) and its
\* keys occur nowhere else in the response, that value is returned.
C14_SinglePlaceIsFound ==
    \A fn \in Extractors :
        LET sites == SitesOf(fn, call.arg)
            probed == 1..(Len(sites) - 1)
        IN ( /\ Extracted(fn)
             /\ CountKeys(call.arg, KeysOf(fn)) = 1
             /\ \E i \in probed : NonEmpty(sites[i]) )
           => call.result = At(sites[FirstNonEmpty(sites)].in, sites[FirstNonEmpty(sites)].key)

C14_Witness ==
    /\ Extracted("find_audio_id")
    /\ CountKeys(call.arg, AudioIdKeys) = 1
    /\ At(First(At(At(call.arg, "data"), "results")), "audioId") = Str("res")
    /\ call.result = Str("res")

\* C15: when POST /mp4/generate answers HTTP 200 with a body whose application
\* code is not 200, generate_mp4 returns a failure (success = False) whose
\* error_code is that code and whose error is the body's msg; the result is
\* neither the NETWORK_ERROR nor the PARSE_ERROR outcome.
C15_ApiRejected ==
    ( /\ Extracted("generate_mp4")
      /\ ~call.arg.err
      /\ call.arg.status_code = 200
      /\ isinstance_dict(call.arg.body)
      /\ Has(call.arg.body, "code")
      /\ Item(call.arg.body, "code") # Num(200) )
    => /\ isinstance_dict(call.result)
       /\ Get(call.result, "success") = Bool(FALSE)
       /\ Get(call.result, "error_code") = Item(call.arg.body, "code")
       /\ Has(call.arg.body, "msg") => Get(call.result, "error") = Item(call.arg.body, "msg")
       /\ Get(call.result, "error_code") \notin {Str("NETWORK_ERROR"), Str("PARSE_ERROR")}

C15_Witness ==
    /\ Extracted("generate_mp4")
    /\ ~call.arg.err
    /\ call.arg.status_code = 200
    /\ At(call.arg.body, "code") = Num(429)
    /\ At(call.result, "success") = Bool(FALSE)
    /\ At(call.result, "error_code") = Num(429)
    /\ At(call.result, "error") = Str("insufficient credits")

\* C16: in a run of monitor_and_download a video job is submitted only when video
\* generation was requested, an audio id was extracted from the success response
\* and the audio download returned True; without a submission there is no video
\* status check and no video download.
C16_VideoOnlyWhenWarranted ==
    entry = "monitor_and_download" =>
        /\ (mp4Submits > 0 \/ pc = "generate_mp4") =>
              /\ generate_mp4_arg
              /\ Truthy(audio_id)
              /\ audio_id = find_audio_id(task_details["monitor_and_download"])
              /\ status["monitor_and_download"] \in AudioSuccessStatus
              /\ ret["download_music"] = "True"
        /\ ( \/ statusCalls["monitor_and_download_mp4"] > 0
             \/ dlCalls["download_mp4"] > 0
             \/ pc \in {"monitor_and_download_mp4", "download_mp4"} ) => mp4Submits = 1

C16_Witness ==
    /\ entry = "monitor_and_download"
    /\ mp4Submits = 1
    /\ statusCalls["monitor_and_download_mp4"] = 2
    /\ ret["download_mp4"] = "True"
    /\ pc = "done"

\* The task id main takes from what generate_music returned, None when it
\* returned nothing or no id is found in it.
SubmittedTaskId ==
    IF Truthy(generation_response) THEN task_id_of(generation_response) ELSE Null

\* The video stage has failed: generate_mp4 reported no success, or the video
\* poller did not return True.
VideoStageFailed ==
    /\ mp4Submits > 0
    /\ \/ ~Truthy(At(mp4_response, "success"))
       \/ ret["monitor_and_download_mp4"] \notin {"none", "True"}

\* C17: in a run of main the chain stops at the first stage that does not succeed:
\* after an audio submission that yields no task id the run is over without any
\* status check, download or video submission; after an audio poll or an audio
\* download that returned False no video job is submitted, polled or downloaded;
\* after a video submission that reports no success no video status check and no
\* video download is made; and once the video stage has failed the process makes
\* no further audio status check, audio download, audio or video submission.
C17_ChainStopsAtFirstFailure ==
    /\ []( /\ (sent.generate > 0 /\ ~Truthy(SubmittedTaskId)) =>
                  /\ pc = "done"
                  /\ \A fn \in Pollers : statusCalls[fn] = 0
                  /\ \A fn \in Downloaders : dlCalls[fn] = 0
                  /\ mp4Submits = 0
           /\ ( \/ ret["monitor_and_download"] = "False"
                \/ ret["download_music"] = "False" ) =>
                  /\ pc = "done"
                  /\ mp4Submits = 0
                  /\ statusCalls["monitor_and_download_mp4"] = 0
                  /\ dlCalls["download_mp4"] = 0
           /\ (mp4Submits > 0 /\ ~Truthy(At(mp4_response, "success"))) =>
                  /\ pc = "done"
                  /\ statusCalls["monitor_and_download_mp4"] = 0
                  /\ dlCalls["download_mp4"] = 0 )
    /\ [][(VideoStageFailed /\ invocation' = invocation) =>
              /\ statusCalls'["monitor_and_download"] = statusCalls["monitor_and_download"]
              /\ dlCalls'["download_music"] = dlCalls["download_music"]
              /\ sent'.generate = sent.generate
              /\ mp4Submits' = mp4Submits]_vars

C17_Witness ==
    /\ entry = "main"
    /\ sent.generate = 1
    /\ statusCalls["monitor_and_download"] = 1
    /\ ret["download_music"] = "True"
    /\ mp4Submits = 1
    /\ At(mp4_response, "error_code") = Num(429)
    /\ statusCalls["monitor_and_download_mp4"] = 0
    /\ pc = "done"

\* C18: in a run with --instrumental no call of the lyrics generator is made or
\* pending, and when the audio job is submitted its payload has the theme as
\* prompt, the capitalised theme as title (theme "sEA", title "Sea") and the
\* instrumental flag set.
C18_InstrumentalSkipsLyrics ==
    argv.instrumental =>
        /\ sent.lyrics = 0
        /\ pc # "generate_lyrics"
        /\ sent.generate > 0 =>
              /\ sent.generate = 1
              /\ sent.payload.prompt = argv.theme.s
              /\ argv.theme = Str("sEA") => sent.payload.title = "Sea"
              /\ sent.payload.instrumental

C18_Witness ==
    /\ argv.instrumental
    /\ ~argv.anthropic_key
    /\ sent.lyrics = 0
    /\ sent.generate = 1
    /\ sent.payload.prompt = "sEA"
    /\ sent.payload.title = "Sea"
    /\ statusCalls["monitor_and_download"] = 1

\* The run resumes a task without an id and the sidecar file it would read does
\* not exist: --check-mp4-task without last_mp4_task_id.txt, or --check-task
\* (and no --check-mp4-task, which main handles first) without last_task_id.txt.
ResumeWithoutSidecar ==
    \/ /\ argv.check_mp4_task = Bool(TRUE)
       /\ sidecar["monitor_and_download_mp4"] = Null
    \/ /\ argv.check_task = Bool(TRUE)
       /\ ~Truthy(argv.check_mp4_task)
       /\ sidecar["monitor_and_download"] = Null

\* C19: a run of main with --check-mp4-task and no id while last_mp4_task_id.txt
\* does not exist, or with --check-task and no id while last_task_id.txt does not
\* exist, ends in main without an exception, makes no status check, no download,
\* no video or audio submission and no lyrics call, and writes no sidecar file.
C19_NoIdNoSidecarEnds ==
    /\ [](ResumeWithoutSidecar =>
            /\ pc \in {"main", "done"}
            /\ ~uncaught
            /\ \A fn \in Pollers : statusCalls[fn] = 0
            /\ \A fn \in Downloaders : dlCalls[fn] = 0
            /\ mp4Submits = 0
            /\ sent = NothingSent)
    /\ [][(ResumeWithoutSidecar /\ invocation' = invocation) =>
              /\ sidecar' = sidecar
              /\ pc' = "done"]_vars

C19_Witness ==
    /\ invocation = "earlier"
    /\ argv.suno_key
    /\ argv.anthropic_key
    /\ argv.check_mp4_task = Bool(TRUE)
    /\ argv.check_task = Bool(TRUE)
    /\ sidecar["monitor_and_download_mp4"] = Null
    /\ sidecar["monitor_and_download"] # Null
    /\ pc = "done"

\* The run resumes poller fn without an id (main handles --check-mp4-task first)
\* and both key checks pass.
ResumedWithoutId(fn) ==
    /\ argv.suno_key
    /\ argv.instrumental \/ argv.anthropic_key
    /\ IF fn = "monitor_and_download_mp4"
       THEN argv.check_mp4_task = Bool(TRUE)
       ELSE argv.check_task = Bool(TRUE) /\ ~Truthy(argv.check_mp4_task)

\* C20: when the earlier process began polling task T with a poller (its task id
\* was recorded and the loop entered), a later process resuming that poller
\* without an id polls exactly T, and makes no lyrics call and no POST /generate.
C20_ResumeRoundTrip ==
    \A fn \in Pollers :
        ( /\ invocation = "later"
          /\ prior[fn] # Unset
          /\ ResumedWithoutId(fn)
          /\ pc # "main" )
        => /\ task_id[fn] = prior[fn]
           /\ sent.lyrics = 0
           /\ sent.generate = 0

\* The call of the lyrics generator did not return: it was made and the locals
\* lyrics_title and lyrics_content still hold their initial empty strings.
LyricsCallFailed ==
    /\ sent.lyrics > 0
    /\ lyrics = [title |-> "", content |-> ""]

\* POST /generate failed: no response, an HTTP error or a body that is no JSON.
AudioSubmissionFailed ==
    /\ sent.generate > 0
    /\ generation_response \in {Null, Unset}

\* C21: in a run of main, after a failed call of the lyrics generator, a failed
\* POST /generate or a status check without result, no exception has left main
\* and none has left a poller or a downloader.
C21_NothingIsFatal ==
    ( \/ LyricsCallFailed
      \/ AudioSubmissionFailed
      \/ \E fn \in Pollers : statusCalls[fn] > 0 /\ task_details[fn] = Null )
    => /\ ~uncaught
       /\ \A fn \in Functions : ret[fn] # "raise"

\* A status result of unexpected shape: JSON that is no dict, or a dict without
\* error code whose data field is no dict.
Malformed(resp) ==
    /\ resp \notin {Null, Unset}
    /\ \/ ~isinstance_dict(resp)
       \/ /\ Has(resp, "data")
          /\ ~isinstance_dict(Get(resp, "data"))
          /\ ~HasErrorCode(resp)

\* C22: in both pollers a cycle whose status result is malformed is handled as a
\* miss or a pending one: no exception leaves the poller, the cycle is counted,
\* and the poller stays in its loop until max_checks cycles are used up.
C22_MalformedIsAbsence ==
    \A fn \in Pollers :
        (statusCalls[fn] > 0 /\ Malformed(task_details[fn])) =>
            /\ ret[fn] # "raise"
            /\ checks[fn] = statusCalls[fn]
            /\ pc = fn \/ (ret[fn] = "False" /\ checks[fn] = max_checks)

\* The artifact URL a poller takes from its last status result.
ArtifactUrl(fn) ==
    IF fn = "monitor_and_download"
    THEN find_audio_url(task_details[fn])
    ELSE video_url_of(task_details[fn], video_data(task_details[fn]))

\* The last cycle of poller fn met a success status and found no artifact URL.
SuccessWithoutUrl(fn) ==
    /\ status[fn] \in SuccessStatus(fn)
    /\ ~Truthy(ArtifactUrl(fn))

\* C23: in both pollers a cycle with a success status whose response yields no
\* artifact URL ends the polling at once: the poller returns False, whatever
\* attempts remain, its downloader is not called, and no status check follows.
C23_SuccessWithoutUrlFails ==
    /\ [](\A fn \in Pollers :
            SuccessWithoutUrl(fn) =>
                /\ pc = "done"
                /\ ret[fn] = "False"
                /\ dlCalls[DownloaderOf(fn)] = 0
                /\ statusCalls[fn] = checks[fn] + 1)
    /\ [][\A fn \in Pollers :
            SuccessWithoutUrl(fn) =>
                /\ statusCalls' = statusCalls
                /\ dlCalls' = dlCalls]_vars

C23_Witness ==
    /\ entry = "monitor_and_download"
    /\ max_checks = 3
    /\ statusCalls["monitor_and_download"] = 2
    /\ SuccessWithoutUrl("monitor_and_download")
    /\ ret["monitor_and_download"] = "False"
    /\ dlCalls["download_music"] = 0

\* Endpoint i answers with an HTTP status, and what the status is.
Answers(i) == ~call.arg[i].err

AnswersOk(i) == Answers(i) /\ call.arg[i].status_code = 200

AnswersError(i) == Answers(i) /\ call.arg[i].status_code # 200

IsPrefix(s, u) == Len(s) <= Len(u) /\ s = SubSeq(u, 1, Len(s))

\* C24: check_generation_status requests its endpoints in the fixed order
\* record-info, status, result, task/{id}, generate/{id}, the primary one always;
\* an alternate only when every endpoint before it answered with a status other
\* than 200; the first endpoint to answer 200, after such answers only, ends the
\* resolution, which returns its JSON body; when no endpoint answers 200 the
\* result is None.
C24_AudioEndpointOrder ==
    Extracted("check_generation_status") =>
        LET requested == call.result.requested
            n == Len(requested)
        IN /\ n >= 1
           /\ IsPrefix(requested, AudioStatusEndpoints)
           /\ requested[1] = "generate/record-info"
           /\ \A i \in 2..n : \A j \in 1..(i - 1) : AnswersError(j)
           /\ \A i \in 1..Len(AudioStatusEndpoints) :
                 ( /\ AnswersOk(i)
                   /\ call.arg[i].body # NotJson
                   /\ \A j \in 1..(i - 1) : AnswersError(j) )
                 => /\ n = i
                    /\ call.result.value = call.arg[i].body
           /\ (\A i \in 1..Len(AudioStatusEndpoints) : ~AnswersOk(i))
                 => call.result.value = Null

C24_Witness ==
    /\ Extracted("check_generation_status")
    /\ AnswersError(1)
    /\ AnswersError(2)
    /\ AnswersOk(3)
    /\ AnswersOk(4)
    /\ call.result.requested = <<"generate/record-info", "generate/status", "generate/result">>
    /\ At(At(call.result.value, "data"), "endpoint") = Str("generate/result")

\* C25: in both status checks an endpoint that answers with an HTTP error other
\* than 404 is the last one requested.
C25_ErrorStopsResolution ==
    \A fn \in {"check_generation_status", "check_mp4_status"} :
        Extracted(fn) =>
            \A i \in 1..Len(call.result.requested) :
                (AnswersError(i) /\ call.arg[i].status_code # 404)
                => Len(call.result.requested) = i

\* The response holds a non-empty value for key both at the top level and in
\* data, and the two differ.
HeldTwice(resp, key) ==
    /\ Truthy(At(resp, key))
    /\ Truthy(At(At(resp, "data"), key))
    /\ At(resp, key) # At(At(resp, "data"), key)

\* C26: when the response to POST /generate holds two different task ids, at the
\* top level and in data, main polls the top-level one; when a status result of
\* the audio poller holds two different statuses, at the top level and in data,
\* the poller's status is the top-level one.
C26_TopLevelBeforeData ==
    /\ (sent.generate > 0 /\ HeldTwice(generation_response, "taskId"))
          => task_id["monitor_and_download"] = At(generation_response, "taskId")
    /\ ( /\ statusCalls["monitor_and_download"] > 0
         /\ HeldTwice(task_details["monitor_and_download"], "status")
         /\ ~HasErrorCode(task_details["monitor_and_download"]) )
          => status["monitor_and_download"] = At(task_details["monitor_and_download"], "status")

C28_OpenAfterValidation ==
    [][\A fn \in Downloaders :
          ( /\ dl.fn = fn
            /\ dl'.fn = fn
            /\ dl'.attempts = dl.attempts + 1
            /\ dl'.last \in {"neterr", "httperr"} )
          => file'[fn] = file[fn]]_vars

C28_Witness ==
    /\ dl.fn = "download_mp4"
    /\ dl.attempts = 2
    /\ dl.last = "httperr"
    /\ dl.transportOnly
    /\ file["download_mp4"] = "old"

\* C29: when a downloader has returned False, its destination file holds what it
\* held before the call (or is still absent) or a complete body, never a
\* truncated or partly written one.
C29_AtomicWrite ==
    \A fn \in Downloaders :
        ret[fn] = "False" => file[fn] \in {"absent", "old", "full"}

\* C30: for an answer to POST /mp4/generate with a status other than 200,
\* generate_mp4 reports the code and msg of the body as error_code and error when
\* the body is a dict that carries both, and the HTTP status code as error_code
\* otherwise, a body that is no JSON included.
C30_EmbeddedCodeFirst ==
    ( /\ Extracted("generate_mp4")
      /\ ~call.arg.err
      /\ call.arg.status_code # 200 )
    => /\ At(call.result, "success") = Bool(FALSE)
       /\ IF /\ isinstance_dict(call.arg.body)
             /\ Has(call.arg.body, "code")
             /\ Has(call.arg.body, "msg")
          THEN /\ At(call.result, "error_code") = Get(call.arg.body, "code")
               /\ At(call.result, "error") = Get(call.arg.body, "msg")
          ELSE At(call.result, "error_code") = Num(call.arg.status_code)

\* C31: every URL the video poller hands to download_mp4 starts with "http": a
\* relative path is prefixed with the file-host base wherever it was found, in
\* data or by the recursive search of the response.
C31_RelativeUrlIsPrefixed ==
    (dl.fn = "download_mp4" /\ entry \in Pollers) =>
        /\ dl.url.t = "str"
        /\ StartsWith(dl.url.s, "http")

(***************************************************************************)
(* Termination of the pollers.  Every network call returns or times out,   *)
(* so a function that can take a step takes one: weak fairness of Next.    *)
(***************************************************************************)
SpecFair == Init /\ [][Next]_vars /\ WF_vars(Next)

\* C32: every run of monitor_and_download and of monitor_and_download_mp4 ends,
\* whatever the status and download responses are, after at most max_checks
\* status checks per poller and at most max_retries attempts per download.
C32_Terminates ==
    /\ <>(pc = "done")
    /\ [](\A fn \in Pollers : statusCalls[fn] <= max_checks /\ checks[fn] <= max_checks)
    /\ [](dl.attempts <= dl.max_retries /\ dl.retry_count <= dl.max_retries)
    /\ [](\A fn \in Downloaders : dlCalls[fn] <= 1)

C32_Witness ==
    /\ pc = "done"
    /\ max_checks = 3
    /\ statusCalls["monitor_and_download"] = 3
    /\ statusCalls["monitor_and_download_mp4"] = 3
    /\ ret["monitor_and_download_mp4"] = "False"
    /\ ret["download_music"] = "True"
    /\ dlCalls["download_mp4"] = 0

\* C33: in the audio poller FIRST_SUCCESS ends the polling as SUCCESS does: once
\* the status read is FIRST_SUCCESS or SUCCESS the poller has left its loop on that
\* very cycle (the cycle is not counted), the URL found in that response has gone
\* to download_music (or, no URL found, the poller has returned False without a
\* download), and no status check is made afterwards.
C33_FirstSuccessIsTerminal ==
    /\ [](status["monitor_and_download"] \in AudioSuccessStatus =>
            /\ pc # "monitor_and_download"
            /\ statusCalls["monitor_and_download"] = checks["monitor_and_download"] + 1
            /\ audio_status(task_details["monitor_and_download"])
                   = status["monitor_and_download"]
            /\ Truthy(find_audio_url(task_details["monitor_and_download"])) =>
                   /\ dlCalls["download_music"] = 1
                   /\ pc = "download_music" =>
                          /\ dl.fn = "download_music"
                          /\ dl.url = find_audio_url(task_details["monitor_and_download"])
            /\ ~Truthy(find_audio_url(task_details["monitor_and_download"])) =>
                   /\ dlCalls["download_music"] = 0
                   /\ ret["monitor_and_download"] = "False")
    /\ [][status["monitor_and_download"] \in AudioSuccessStatus =>
              /\ statusCalls'["monitor_and_download"] = statusCalls["monitor_and_download"]
              /\ status'["monitor_and_download"] = status["monitor_and_download"]]_vars

C33_Witness ==
    /\ pc = "done"
    /\ max_checks = 3
    /\ status["monitor_and_download"] = Str("FIRST_SUCCESS")
    /\ statusCalls["monitor_and_download"] = 1
    /\ dlCalls["download_music"] = 1
    /\ ret["download_music"] = "True"
    /\ ret["monitor_and_download"] = "True"

\* C34: each poller writes the task id it polls to its sidecar file before its
\* first status check: while monitor_and_download runs, and after it has made a
\* status check or has returned, last_task_id.txt holds exactly the id it was
\* called with; the same for monitor_and_download_mp4 and last_mp4_task_id.txt.
\* No status check is made while the sidecar holds anything else.
C34_PersistBeforePoll ==
    /\ [](\A fn \in Pollers :
            (pc = fn \/ statusCalls[fn] > 0 \/ ret[fn] # "none") =>
                /\ task_id[fn].t = "str"
                /\ sidecar[fn] = task_id[fn])
    /\ [][\A fn \in Pollers :
            statusCalls'[fn] > statusCalls[fn] =>
                /\ sidecar[fn] = task_id[fn]
                /\ sidecar'[fn] = task_id[fn]]_vars

C34_Witness ==
    /\ entry = "main"
    /\ invocation = "later"
    /\ pc = "done"
    /\ prior["monitor_and_download"] = Str("t1")
    /\ task_id["monitor_and_download"] = Str("t1")
    /\ sidecar["monitor_and_download"] = Str("t1")
    /\ statusCalls["monitor_and_download"] = 1
    /\ ret["monitor_and_download"] = "False"
    /\ sidecar["monitor_and_download_mp4"] = Str("v1")

\* C35: monitor_and_download, once it has called download_music, returns what
\* download_music returned, whatever the chained video stage did: with the
\* submission rejected or raising, no video task id, the video poller returning
\* False (failed, exhausted, download failed) or raising, or the video downloaded,
\* the value returned is True exactly when the audio download returned True.
C35_ResultIsAudioResult ==
    (entry = "monitor_and_download" /\ pc = "done" /\ dlCalls["download_music"] > 0) =>
        /\ ret["monitor_and_download"] \in {"True", "False"}
        /\ ret["monitor_and_download"] = ret["download_music"]
        /\ mp4Submits > 0 => ret["monitor_and_download"] = "True"

C35_Witness ==
    /\ entry = "monitor_and_download"
    /\ pc = "done"
    /\ mp4Submits = 1
    /\ statusCalls["monitor_and_download_mp4"] > 0
    /\ ret["monitor_and_download_mp4"] = "raise"
    /\ ret["download_music"] = "True"
    /\ ret["monitor_and_download"] = "True"

\* Some dict of obj, at any depth, holds `url` under one of the audio URL keys and
\* `id` under one of the audio id keys: the two belong to one entry.
RECURSIVE SameEntry(_, _, _)
RECURSIVE SameEntryIn(_, _, _, _)
SameEntryIn(xs, url, id, i) ==
    IF i > Len(xs) THEN FALSE
    ELSE SameEntry(xs[i], url, id) \/ SameEntryIn(xs, url, id, i + 1)

SameEntry(obj, url, id) ==
    IF isinstance_dict(obj) THEN
        \/ /\ \E i \in 1..Len(AudioUrlKeys) : Get(obj, AudioUrlKeys[i]) = url
           /\ \E i \in 1..Len(AudioIdKeys) : Get(obj, AudioIdKeys[i]) = id
        \/ SameEntryIn([i \in 1..Len(obj.kv) |-> obj.kv[i][2]], url, id, 1)
    ELSE IF isinstance_list(obj) THEN SameEntryIn(obj.xs, url, id, 1)
    ELSE FALSE

\* C36: whenever monitor_and_download submits a video job, the audio id it sends
\* and the audio URL it downloaded stand in one and the same dict of the status
\* response.
C36_ArtifactConsistency ==
    (entry = "monitor_and_download" /\ mp4Submits > 0) =>
        SameEntry(task_details["monitor_and_download"],
                  find_audio_url(task_details["monitor_and_download"]),
                  audio_id)

\* C37: in check_generation_status an endpoint, primary or alternate, whose
\* request raises a transport exception is the last one requested and the result
\* is None; in check_mp4_status an endpoint whose request raises a transport
\* exception, when it is not the last of the list, is followed by a request to the
\* next endpoint of the list.
C37_ResolversDifferOnException ==
    /\ Extracted("check_generation_status") =>
          \A i \in 1..Len(call.result.requested) :
              call.arg[i].err =>
                  /\ Len(call.result.requested) = i
                  /\ call.result.value = Null
    /\ Extracted("check_mp4_status") =>
          \A i \in 1..Len(call.result.requested) :
              (call.arg[i].err /\ i < Len(VideoStatusEndpoints)) =>
                  /\ Len(call.result.requested) >= i + 1
                  /\ call.result.requested[i + 1] = VideoStatusEndpoints[i + 1]

C37_Witness ==
    /\ Extracted("check_mp4_status")
    /\ call.arg[1].err
    /\ call.arg[2].err
    /\ AnswersOk(3)
    /\ call.result.requested = VideoStatusEndpoints
    /\ At(At(call.result.value, "data"), "endpoint") = Str("mp4/status")

\* C38: generate_mp4 always returns a dict with a boolean success field and a data
\* field, and success is True exactly when the HTTP status is 200, the body parses
\* as JSON and the body is either no dict or a dict whose code is 200; an HTTP 200
\* dict body without a code field is reported as a failure.
C38_Mp4ResultShape ==
    Extracted("generate_mp4") =>
        /\ isinstance_dict(call.result)
        /\ Has(call.result, "success")
        /\ Item(call.result, "success") \in {Bool(TRUE), Bool(FALSE)}
        /\ Has(call.result, "data")
        /\ Item(call.result, "success") = Bool(TRUE)
              <=> /\ ~call.arg.err
                  /\ call.arg.status_code = 200
                  /\ call.arg.body # NotJson
                  /\ \/ ~isinstance_dict(call.arg.body)
                     \/ Get(call.arg.body, "code") = Num(200)

====
